---------------------------- MODULE Spec2Model ----------------------------
(***************************************************************************)
(* Model of the PV telemetry relay (aymen99tn/modbus_rpi_opta).            *)
(*                                                                         *)
(*   bridge tier   src/modbus_bridge_rpi2.py                               *)
(*                 StoringHoldingRegisterBlock, TelemetryBuffer,           *)
(*                 forwarder_task                                          *)
(*   gateway tier  src/system_v2/rpi2/modbus_server.py,                    *)
(*                 src/system_v2/rpi2/protocol_translator.py               *)
(*   encoder       src/system_v1/modbus_client_tls.py (u16,                *)
(*                 pack_u32_to_2x_u16, the register map of main)           *)
(*                                                                         *)
(* The tiers are separate processes; each has its own specification over   *)
(* its own variables (Spec: bridge, SpecGateway, SpecCodec).               *)
(*                                                                         *)
(* Python integers are unbounded and TLC's are 32-bit, so a value that can *)
(* exceed 2^31-1 (the unix time, the argument of pack_u32_to_2x_u16) is a  *)
(* record [neg, bits] with bits a little-endian sequence of 0/1.           *)
(* Python floats are modelled as exact rationals <<num, den>>.             *)
(***************************************************************************)
EXTENDS Integers, Sequences, FiniteSets, TLC

\* ------------------------------------------------------------------ bounds
\* capacity of the TelemetryBuffer in the model (BUFFER_MAX_SIZE is 100)
BUFFER_MAX_SIZE == 2
\* number of setValues calls on the bridge block in one behaviour
MaxWrites == 3
\* cap of consecutive_failures (connect failures grow it without limit)
MaxFailures == 4
\* cap of the failed sends in a row
MaxSendFailures == 3
\* cap of the enqueue tasks waiting in the event loop
MaxPending == 2
\* cap of total_forwarded
MaxForwarded == 1
\* number of setValues calls on the gateway block in one behaviour
MaxGwWrites == 2
\* number of translate_and_send cycles in one behaviour
MaxCycles == 3
\* number of setValues calls, all tiers together, in SpecStores
MaxStoreWrites == 2
\* longest values list of a generated write
MaxLen == 3
\* number of getValues calls of readers on the smart-meter block
MaxReads == 2
\* number of setValues calls on the bridge block in one behaviour of SpecTasks
MaxTaskWrites == 1
\* number of setValues calls on the bridge block in one behaviour of SpecLoop
MaxLoopWrites == 3
\* number of setValues calls on the bridge block in one behaviour of FairSpecLoop
MaxFairWrites == 2
\* cap of total_forwarded for the mark_forwarded calls of the diagnostic caller
MaxMarked == 3

\* ------------------------------------------------------- program constants
BLOCK_SIZE == 100
WATCHED_LAST == 7
WATCHED_COUNT == 8
GW_WATCHED_LAST == 4
GW_WATCHED_COUNT == 5
FAILURE_THRESHOLD == 3
U16_MAX == 65535
WORD == 16
P_AC_MAX == 10000
V_DC_MAX == 100
I_DC_MAX == 50
G_MAX == 1500
V_SCALE == 10
I_SCALE == 100
T_SCALE == 10

\* Python's None and a value that is not None
None == <<>>
Some(x) == <<x>>

Min(a, b) == IF a < b THEN a ELSE b
Max(a, b) == IF a > b THEN a ELSE b

\* --------------------------------------------------- Python int bit vectors
\* the w low bits of the natural n, least significant first
RECURSIVE ToBits(_, _)
ToBits(n, w) == IF w = 0 THEN <<>> ELSE <<n % 2>> \o ToBits(n \div 2, w - 1)

\* the natural a bit vector of at most 31 bits stands for
RECURSIVE FromBits(_)
FromBits(b) == IF b = <<>> THEN 0 ELSE b[1] + 2 * FromBits(Tail(b))

Bit(b, i) == IF i <= Len(b) THEN b[i] ELSE 0

\* x & y, x | y on non-negative bit vectors
BitAnd(x, y) == [i \in 1..Max(Len(x), Len(y)) |-> IF Bit(x, i) = 1 /\ Bit(y, i) = 1 THEN 1 ELSE 0]
BitOr(x, y) == [i \in 1..Max(Len(x), Len(y)) |-> IF Bit(x, i) = 1 \/ Bit(y, i) = 1 THEN 1 ELSE 0]
\* x << k, x >> k
ShiftLeft(x, k) == [i \in 1..k |-> 0] \o x
ShiftRight(x, k) == IF Len(x) <= k THEN <<>> ELSE SubSeq(x, k + 1, Len(x))

Ones(w) == [i \in 1..w |-> 1]
\* a bit vector without its leading zeros, padded to w bits: the value itself
Norm(x, w) == [i \in 1..w |-> Bit(x, i)]
IsZero(x) == \A i \in 1..Len(x) : x[i] = 0
\* x > 2^w - 1
Exceeds(x, w) == \E i \in 1..Len(x) : i > w /\ x[i] = 1


\* ------------------------------------------------------------- rationals
\* a Python float is the exact rational <<num, den>>, den > 0
Rat(n, d) == <<n, d>>
RatMul(a, k) == <<a[1] * k, a[2]>>
RatLess(a, b) == a[1] * b[2] < b[1] * a[2]
RatLeq(a, b) == a[1] * b[2] <= b[1] * a[2]
Abs(n) == IF n < 0 THEN 0 - n ELSE n
\* |a - b| <= c
RatWithin(a, b, c) == Abs(a[1] * b[2] - b[1] * a[2]) * c[2] <= c[1] * a[2] * b[2]

\* Python's round(x): to the nearest integer, a tie to the even one
round(x) ==
    LET q == x[1] \div x[2]
        r == x[1] % x[2]
    IN  IF 2 * r < x[2] THEN q
        ELSE IF 2 * r > x[2] THEN q + 1
        ELSE IF q % 2 = 0 THEN q ELSE q + 1

\* ---------------------------------------------------------------- encoder
\* u16(x) = max(0, min(65535, int(x)))
u16_wrap(x) == x % (U16_MAX + 1)
u16(x) == Max(0, Min(U16_MAX, x))

\* pack_u32_to_2x_u16(u32): clamp to [0, 0xFFFFFFFF], then split into two words
pack_u32_lo_first(u32) ==
    LET c  == IF u32.neg /\ ~IsZero(u32.bits) THEN <<>>
              ELSE IF Exceeds(u32.bits, 2 * WORD) THEN Ones(2 * WORD)
              ELSE u32.bits
        hi == FromBits(Norm(BitAnd(ShiftRight(c, WORD), Ones(WORD)), WORD))
        lo == FromBits(Norm(BitAnd(c, Ones(WORD)), WORD))
    IN  <<lo, hi>>
pack_u32_to_2x_u16(u32) ==
    LET c  == IF u32.neg /\ ~IsZero(u32.bits) THEN <<>>
              ELSE IF Exceeds(u32.bits, 2 * WORD) THEN Ones(2 * WORD)
              ELSE u32.bits
        hi == FromBits(Norm(BitAnd(ShiftRight(c, WORD), Ones(WORD)), WORD))
        lo == FromBits(Norm(BitAnd(c, Ones(WORD)), WORD))
    IN  <<hi, lo>>

\* regs[2] = u16(round(row["V_dc"] * 10)), regs[3] = u16(round(row["I_dc"] * 100))
EncodeVdcWrong(v) == u16(round(RatMul(v, I_SCALE)))
EncodeVdc(v) == u16(round(RatMul(v, V_SCALE)))
EncodeIdc(v) == u16(round(RatMul(v, I_SCALE)))

\* the register block main() builds for one row and its unix time
main_regs(row, unix_s) ==
    << u16(round(row.P_ac)), u16(round(row.P_dc)), EncodeVdc(row.V_dc),
       EncodeIdc(row.I_dc), u16(round(row.G)), u16(round(RatMul(row.T_cell, T_SCALE))) >>
    \o pack_u32_to_2x_u16(unix_s)

\* ---------------------------------------------------------------- decoder
\* unix_s = ((regs[6] & 0xFFFF) << 16) | (regs[7] & 0xFFFF), as a 32-bit vector
ReassembleLoOnly(hi, lo) == Norm(BitAnd(ToBits(lo, WORD), Ones(WORD)), 2 * WORD)
Reassemble(hi, lo) ==
    Norm(BitOr(ShiftLeft(BitAnd(ToBits(hi, WORD), Ones(WORD)), WORD),
               BitAnd(ToBits(lo, WORD), Ones(WORD))), 2 * WORD)

\* the decode of the 8 watched registers in setValues (regs is 1-based here)
Decode8(regs) ==
    [ P_ac   |-> Rat(regs[1], 1),
      P_dc   |-> Rat(regs[2], 1),
      V_dc   |-> Rat(regs[3], V_SCALE),
      I_dc   |-> Rat(regs[4], I_SCALE),
      G      |-> Rat(regs[5], 1),
      T_cell |-> Rat(regs[6], T_SCALE),
      unix_s |-> Reassemble(regs[7], regs[8]) ]


VARIABLES
    \* ---- bridge tier (src/modbus_bridge_rpi2.py)
    hr,                    \* StoringHoldingRegisterBlock.values, 100 registers
    pending,               \* asyncio tasks created by setValues, not yet run
    buffer,                \* TelemetryBuffer.buffer (deque, oldest first)
    total_received,
    total_forwarded,
    total_dropped,
    fw_pc,                 \* where forwarder_task is waiting
    connected,
    consecutive_failures,
    buffer_count,          \* forwarder local
    latest,                \* forwarder local
    tick_ops,              \* client calls made by the current forwarder tick
    \* ---- history variables of the bridge tier
    added,                 \* every record passed to add(), in call order
    n_writes,              \* number of setValues calls
    n_watched,             \* number of them whose interval meets registers 0..7
    last_write,            \* arguments of the last setValues call
    send_streak,           \* failed sends since the last successful send
    conn_streak,           \* failed sends since the last successful connect or send
    tick_end,              \* how the forwarder's last tick ended ("running" inside one)
    client_open            \* the client's connection to the Opta is open

bridge_vars == << hr, pending, buffer, total_received, total_forwarded, total_dropped,
                  fw_pc, connected, consecutive_failures, buffer_count, latest,
                  tick_ops, added, n_writes, n_watched, last_write, send_streak,
                  conn_streak, tick_end, client_open >>

\* ------------------------------------------------- ModbusSequentialDataBlock
\* super().setValues(address, values) on a block created at address 0: the
\* slice assignment, refused (nothing stored) when it would pass the end
BlockSetValues(values_, address, values) ==
    IF address + Len(values) > Len(values_)
    THEN values_
    ELSE [i \in 1..Len(values_) |->
            IF i - 1 >= address /\ i - 1 < address + Len(values)
            THEN values[i - address] ELSE values_[i]]

\* getValues(address, count): self.values[address : address + count]
BlockGetValues(values_, address, count) ==
    SubSeq(values_, address + 1, Min(address + count, Len(values_)))

\* ------------------------------------------------------------ TelemetryBuffer
\* deque(maxlen=maxsize).append(x): a full deque discards its leftmost item
DequeAppendDropNewest(d, x) == IF Len(d) >= BUFFER_MAX_SIZE THEN d ELSE Append(d, x)
DequeAppendUnbounded(d, x) == Append(d, x)
DequeAppendLeft(d, x) ==
    IF Len(d) >= BUFFER_MAX_SIZE THEN << x >> \o SubSeq(d, 1, Len(d) - 1)
    ELSE << x >> \o d
DequeAppend(d, x) ==
    IF Len(d) >= BUFFER_MAX_SIZE THEN Append(Tail(d), x) ELSE Append(d, x)

\* TelemetryBuffer.add on the state b = [buffer, total_received, total_dropped]
add_uncounted(b, registers, timestamp) ==
    [ buffer         |-> DequeAppend(b.buffer,
                            [registers |-> registers, timestamp |-> timestamp]),
      total_dropped  |-> IF Len(b.buffer) >= BUFFER_MAX_SIZE
                         THEN b.total_dropped + 1 ELSE b.total_dropped,
      total_received |-> b.total_received ]
add(b, registers, timestamp) ==
    [ buffer         |-> DequeAppend(b.buffer,
                            [registers |-> registers, timestamp |-> timestamp]),
      total_dropped  |-> IF Len(b.buffer) >= BUFFER_MAX_SIZE
                         THEN b.total_dropped + 1 ELSE b.total_dropped,
      total_received |-> b.total_received + 1 ]

get_latest_oldest(b) == IF Len(b) > 0 THEN Some(b[1]) ELSE None
get_latest_but_one(b) ==
    IF Len(b) > 1 THEN Some(b[Len(b) - 1]) ELSE IF Len(b) > 0 THEN Some(b[1]) ELSE None
get_latest(b) == IF Len(b) > 0 THEN Some(b[Len(b)]) ELSE None

get_count_plus_one(b) == Len(b) + 1
get_count(b) == Len(b)

\* ------------------------------------------------- StoringHoldingRegisterBlock
\* the registers address..address+n-1 and the registers lo..hi have one in common
Intersects(address, n, lo, hi) ==
    \E i \in address..(address + n - 1) : i >= lo /\ i <= hi

\* the overlap test of setValues: `if end < 0 or start > 7: return`
OverlapsWatchedInside(address, values, last) ==
    LET start == address
        end   == start + Len(values) - 1
    IN  ~(start < 0 \/ end > last)
OverlapsWatched(address, values, last) ==
    LET start == address
        end   == start + Len(values) - 1
    IN  ~(end < 0 \/ start > last)

\* setValues(address, values): store, and for a write that overlaps registers
\* 0..7 read the block back, decode it and create the task that will add it
StoringHoldingRegisterBlock_setValues(address, values) ==
    /\ n_writes < MaxWrites
    /\ Len(pending) < MaxPending
    /\ hr' = BlockSetValues(hr, address, values)
    /\ n_writes' = n_writes + 1
    /\ n_watched' = IF Intersects(address, Len(values), 0, WATCHED_LAST)
                    THEN n_watched + 1 ELSE n_watched
    /\ last_write' = Some([address |-> address, values |-> values])
    /\ IF OverlapsWatched(address, values, WATCHED_LAST)
       THEN LET regs == BlockGetValues(hr', 0, WATCHED_COUNT)
                ts   == Decode8(regs).unix_s
            IN  pending' = Append(pending, [registers |-> regs, timestamp |-> ts])
       ELSE pending' = pending
    /\ UNCHANGED << buffer, total_received, total_forwarded, total_dropped, fw_pc,
                    connected, consecutive_failures, buffer_count, latest, tick_ops,
                    added, send_streak, conn_streak, tick_end, client_open >>

\* the event loop runs the oldest waiting task: telemetry_buffer.add(regs, ts)
RunAddTask ==
    /\ pending # <<>>
    /\ LET t == Head(pending)
           b == add([buffer |-> buffer, total_received |-> total_received,
                     total_dropped |-> total_dropped], t.registers, t.timestamp)
       IN  /\ buffer' = b.buffer
           /\ total_received' = b.total_received
           /\ total_dropped' = b.total_dropped
           /\ added' = Append(added, t)
    /\ pending' = Tail(pending)
    /\ UNCHANGED << hr, total_forwarded, fw_pc, connected, consecutive_failures,
                    buffer_count, latest, tick_ops, n_writes, n_watched, last_write,
                    send_streak, conn_streak, tick_end, client_open >>

\* -------------------------------------------------------------- forwarder_task
\* mark_forwarded(count): total_forwarded += count
mark_forwarded_reset(n, count) == IF n > 0 THEN 0 ELSE count
mark_forwarded_twice(n, count) == n + 2 * count
mark_forwarded(n, count) == n + count

\* the threshold test that ends a tick in which a write was attempted
ThresholdNever(failures) == FALSE
ThresholdAtTwo(failures) == failures >= FAILURE_THRESHOLD - 1
Threshold(failures) == failures >= FAILURE_THRESHOLD

\* Where the forwarder can be suspended: sleep(FORWARD_INTERVAL),
\* client.connect() and client.write_registers().  The buffer calls do not
\* suspend it: the lock is never held across an await, so it is always free
\* and `async with self.lock` returns at once.

\* buffer_count = get_count(); an empty buffer skips the tick, a disconnected
\* forwarder goes to connect, a connected one fetches latest and goes to write
FwWake ==
    /\ fw_pc = "sleep"
    /\ buffer_count' = get_count(buffer)
    /\ tick_ops' = <<>>
    /\ IF buffer_count' = 0
       THEN fw_pc' = "sleep" /\ latest' = None /\ tick_end' = "empty"
       ELSE IF ~connected
       THEN fw_pc' = "connect" /\ latest' = None /\ tick_end' = "running"
       ELSE /\ latest' = get_latest(buffer)
            /\ fw_pc' = IF latest' = None THEN "sleep" ELSE "write"
            /\ tick_end' = IF latest' = None THEN "no_latest" ELSE "running"
    /\ UNCHANGED << hr, pending, buffer, total_received, total_forwarded,
                    total_dropped, connected, consecutive_failures, added,
                    n_writes, n_watched, last_write, send_streak, conn_streak,
                    client_open >>

\* connected = await client.connect(); a failure ends the tick (continue), a
\* success resets the failure count, fetches latest and goes to write
FwConnectNoCount(ok) ==
    /\ fw_pc = "connect"
    /\ ok \/ consecutive_failures < MaxFailures
    /\ connected' = ok
    /\ client_open' \in IF ok THEN {TRUE} ELSE {client_open, FALSE}
    /\ tick_ops' = Append(tick_ops, "connect")
    /\ IF ok
       THEN /\ consecutive_failures' = 0
            /\ conn_streak' = 0
            /\ latest' = get_latest(buffer)
            /\ fw_pc' = IF latest' = None THEN "sleep" ELSE "write"
            /\ tick_end' = IF latest' = None THEN "no_latest" ELSE "running"
       ELSE /\ consecutive_failures' = consecutive_failures
            /\ conn_streak' = conn_streak
            /\ latest' = latest
            /\ fw_pc' = "sleep"
            /\ tick_end' = "connect_failed"
    /\ UNCHANGED << hr, pending, buffer, total_received, total_forwarded,
                    total_dropped, buffer_count, added, n_writes, n_watched,
                    last_write, send_streak >>
FwConnect(ok) ==
    /\ fw_pc = "connect"
    /\ ok \/ consecutive_failures < MaxFailures
    /\ connected' = ok
    /\ client_open' \in IF ok THEN {TRUE} ELSE {client_open, FALSE}
    /\ tick_ops' = Append(tick_ops, "connect")
    /\ IF ok
       THEN /\ consecutive_failures' = 0
            /\ conn_streak' = 0
            /\ latest' = get_latest(buffer)
            /\ fw_pc' = IF latest' = None THEN "sleep" ELSE "write"
            /\ tick_end' = IF latest' = None THEN "no_latest" ELSE "running"
       ELSE /\ consecutive_failures' = consecutive_failures + 1
            /\ conn_streak' = conn_streak
            /\ latest' = latest
            /\ fw_pc' = "sleep"
            /\ tick_end' = "connect_failed"
    /\ UNCHANGED << hr, pending, buffer, total_received, total_forwarded,
                    total_dropped, buffer_count, added, n_writes, n_watched,
                    last_write, send_streak >>

WriteOutcomes == {"ok", "error", "exception"}

\* result = await client.write_registers(...), the handling of its outcome and
\* the threshold test, up to the next sleep
FwWrite(outcome) ==
    /\ fw_pc = "write"
    /\ IF outcome = "ok" THEN total_forwarded < MaxForwarded
                         ELSE send_streak < MaxSendFailures
    /\ tick_ops' = Append(tick_ops, "write")
    /\ LET failures == IF outcome = "ok" THEN 0 ELSE consecutive_failures + 1
           conn     == IF outcome = "exception" THEN FALSE ELSE connected
       IN  IF Threshold(failures)
           THEN connected' = FALSE /\ consecutive_failures' = 0
           ELSE connected' = conn /\ consecutive_failures' = failures
    /\ total_forwarded' = IF outcome = "ok" THEN mark_forwarded(total_forwarded, 1)
                          ELSE total_forwarded
    /\ send_streak' = IF outcome = "ok" THEN 0 ELSE send_streak + 1
    /\ conn_streak' = IF outcome = "ok" THEN 0 ELSE conn_streak + 1
    /\ fw_pc' = "sleep"
    /\ tick_end' = outcome
    /\ client_open' \in IF outcome = "exception" THEN {client_open, FALSE}
                                                ELSE {client_open}
    /\ UNCHANGED << hr, pending, buffer, total_received, total_dropped,
                    buffer_count, latest, added, n_writes, n_watched, last_write >>

\* client.connect() raises: the `except Exception` handler of the loop logs
\* and sleeps before the next tick
FwConnectRaises ==
    /\ fw_pc = "connect"
    /\ tick_ops' = Append(tick_ops, "connect")
    /\ client_open' \in {client_open, FALSE}
    /\ fw_pc' = "error_sleep"
    /\ tick_end' = "unexpected"
    /\ UNCHANGED << hr, pending, buffer, total_received, total_forwarded,
                    total_dropped, connected, consecutive_failures, buffer_count,
                    latest, added, n_writes, n_watched, last_write, send_streak,
                    conn_streak >>

\* the sleep of the handler is over: the loop starts its next iteration
FwErrorExit ==
    /\ fw_pc = "error_sleep"
    /\ fw_pc' = "done"
    /\ UNCHANGED << hr, pending, buffer, total_received, total_forwarded,
                    total_dropped, connected, consecutive_failures, buffer_count,
                    latest, tick_ops, added, n_writes, n_watched, last_write,
                    send_streak, conn_streak, tick_end, client_open >>
FwErrorSleep ==
    /\ fw_pc = "error_sleep"
    /\ fw_pc' = "sleep"
    /\ UNCHANGED << hr, pending, buffer, total_received, total_forwarded,
                    total_dropped, connected, consecutive_failures, buffer_count,
                    latest, tick_ops, added, n_writes, n_watched, last_write,
                    send_streak, conn_streak, tick_end, client_open >>

\* the task is cancelled while it waits.  In the loop's try block the
\* CancelledError is caught, the loop is left and `if connected:
\* client.close()` runs; in the sleep of the `except Exception` handler it is
\* not caught and ends the task at once
FwCancel ==
    /\ fw_pc \in {"sleep", "connect", "write", "error_sleep"}
    /\ fw_pc' = "done"
    /\ tick_end' = "cancelled"
    /\ client_open' = IF fw_pc # "error_sleep" /\ connected THEN FALSE ELSE client_open
    /\ UNCHANGED << hr, pending, buffer, total_received, total_forwarded,
                    total_dropped, connected, consecutive_failures, buffer_count,
                    latest, tick_ops, added, n_writes, n_watched, last_write,
                    send_streak, conn_streak >>

\* ------------------------------------------- the bridge's event loop, by step
\* The coroutines of the bridge run on one asyncio event loop: a task runs
\* until it suspends (a sleep, a network await, a wait for a held lock, its
\* end), and only then the loop resumes another one.  Here every call of a
\* TelemetryBuffer method is taken step by step: the entry of `async with
\* self.lock`, the body, the exit.
VARIABLES
    lock,                  \* TelemetryBuffer.lock: "free" or the task holding it
    cur,                   \* the task the event loop is running, or "none"
    op,                    \* per task: the buffer call it is in, or None
    ret                    \* per task: what its last buffer call returned

loop_vars == << lock, cur, op, ret >>

\* an enqueue task, the forwarder, the statistics task, a diagnostic caller
Tasks == {"add", "forwarder", "stats", "api"}

\* asyncio.Lock
LockedAlways(l) == TRUE
Locked(l) == l # "free"
acquire(l, t) == t
release_keep(l) == IF l = "forwarder" THEN l ELSE "free"
release(l) == "free"

\* what the loop runs after a step of task t: t itself, until t suspends
AfterStepPreemptive(t, suspends) == "none"
AfterStep(t, suspends) == IF suspends THEN "none" ELSE t
CanRun(t) == cur \in {"none", t}

\* get_all_pending on the deque d: data = list(self.buffer); self.buffer.clear()
get_all_pending_keep(d) == [data |-> d, buffer |-> d]
get_all_pending(d) == [data |-> d, buffer |-> <<>>]

\* the body of the method `name` on the state b of the TelemetryBuffer: the
\* state after it and the value it returns
BufferCallLatestPops(name, b, arg) ==
    CASE name = "add" ->
            LET a == add([buffer |-> b.buffer, total_received |-> b.total_received,
                          total_dropped |-> b.total_dropped],
                         arg.registers, arg.timestamp)
            IN  [buffer |-> a.buffer, total_received |-> a.total_received,
                 total_dropped |-> a.total_dropped,
                 total_forwarded |-> b.total_forwarded, ret |-> None]
      [] name = "get_latest" ->
            [buffer |-> IF b.buffer = <<>> THEN <<>>
                        ELSE SubSeq(b.buffer, 1, Len(b.buffer) - 1),
             total_received |-> b.total_received,
             total_dropped |-> b.total_dropped,
             total_forwarded |-> b.total_forwarded,
             ret |-> Some(get_latest(b.buffer))]
      [] name = "get_count" ->
            [buffer |-> b.buffer, total_received |-> b.total_received,
             total_dropped |-> b.total_dropped,
             total_forwarded |-> b.total_forwarded,
             ret |-> Some(get_count(b.buffer))]
      [] name = "get_all_pending" ->
            [buffer |-> get_all_pending(b.buffer).buffer,
             total_received |-> b.total_received,
             total_dropped |-> b.total_dropped,
             total_forwarded |-> b.total_forwarded,
             ret |-> Some(get_all_pending(b.buffer).data)]
      [] name = "mark_forwarded" ->
            [buffer |-> b.buffer, total_received |-> b.total_received,
             total_dropped |-> b.total_dropped,
             total_forwarded |-> mark_forwarded(b.total_forwarded, arg),
             ret |-> None]
BufferCall(name, b, arg) ==
    CASE name = "add" ->
            LET a == add([buffer |-> b.buffer, total_received |-> b.total_received,
                          total_dropped |-> b.total_dropped],
                         arg.registers, arg.timestamp)
            IN  [buffer |-> a.buffer, total_received |-> a.total_received,
                 total_dropped |-> a.total_dropped,
                 total_forwarded |-> b.total_forwarded, ret |-> None]
      [] name = "get_latest" ->
            [buffer |-> b.buffer, total_received |-> b.total_received,
             total_dropped |-> b.total_dropped,
             total_forwarded |-> b.total_forwarded,
             ret |-> Some(get_latest(b.buffer))]
      [] name = "get_count" ->
            [buffer |-> b.buffer, total_received |-> b.total_received,
             total_dropped |-> b.total_dropped,
             total_forwarded |-> b.total_forwarded,
             ret |-> Some(get_count(b.buffer))]
      [] name = "get_all_pending" ->
            [buffer |-> get_all_pending(b.buffer).buffer,
             total_received |-> b.total_received,
             total_dropped |-> b.total_dropped,
             total_forwarded |-> b.total_forwarded,
             ret |-> Some(get_all_pending(b.buffer).data)]
      [] name = "mark_forwarded" ->
            [buffer |-> b.buffer, total_received |-> b.total_received,
             total_dropped |-> b.total_dropped,
             total_forwarded |-> mark_forwarded(b.total_forwarded, arg),
             ret |-> None]

\* the methods that take the lock: all but mark_forwarded
UsesLock(name) == name # "mark_forwarded"

\* task t has called the method: it is at `async with self.lock`, or at the
\* body of a method that takes no lock
Call(name, arg) ==
    Some([name |-> name, arg |-> arg,
          pc |-> IF UsesLock(name) THEN "acquire" ELSE "body"])
OpAt(t, pc) == op[t] # None /\ op[t][1].pc = pc
OpTo(t, pc) == [op EXCEPT ![t] = Some([op[t][1] EXCEPT !.pc = pc])]

\* ------------------------------------------------------ smart-meter tier
VARIABLES
    sm_hr,                 \* SmartMeterDataBlock.values, 100 registers
    sm_total_received,
    sm_total_served,
    sm_last_update,
    sm_n_writes,           \* history: number of setValues calls
    sm_last_write,         \* history: arguments of the last setValues call
    sm_n_reads,            \* history: number of getValues calls of readers
    sm_last_read,          \* history: arguments of the last such call
    now                    \* datetime.now(): a clock that every step advances

sm_vars == << sm_hr, sm_total_received, sm_total_served, sm_last_update,
              sm_n_writes, sm_last_write, sm_n_reads, sm_last_read >>

\* what SmartMeterDataBlock.getValues adds to total_served
ServedAlways(address, count) == 1
Served(address, count) == IF address = 0 /\ count = WATCHED_COUNT THEN 1 ELSE 0

\* setValues(address, values): store; a write that overlaps registers 0..7
\* reads the block back through self.getValues(0, 8), which counts as a served
\* read, and updates total_received and last_update
SmartMeterDataBlock_setValues(address, values) ==
    /\ sm_n_writes < MaxWrites
    /\ sm_hr' = BlockSetValues(sm_hr, address, values)
    /\ sm_n_writes' = sm_n_writes + 1
    /\ sm_last_write' = Some([address |-> address, values |-> values])
    /\ now' = now + 1
    /\ IF OverlapsWatched(address, values, WATCHED_LAST)
       THEN /\ sm_total_served' = sm_total_served + Served(0, WATCHED_COUNT)
            /\ sm_total_received' = sm_total_received + 1
            /\ sm_last_update' = Some(now')
       ELSE UNCHANGED << sm_total_served, sm_total_received, sm_last_update >>
    /\ UNCHANGED << sm_n_reads, sm_last_read >>

\* getValues(address, count), called for a reader: the slice is returned, and a
\* read of exactly registers 0..7 is counted
SmartMeterDataBlock_getValues(address, count) ==
    /\ sm_n_reads < MaxReads
    /\ sm_n_reads' = sm_n_reads + 1
    /\ sm_last_read' = Some([address |-> address, count |-> count,
                             values |-> BlockGetValues(sm_hr, address, count)])
    /\ sm_total_served' = sm_total_served + Served(address, count)
    /\ UNCHANGED << sm_hr, sm_total_received, sm_last_update, sm_n_writes,
                    sm_last_write, now >>

\* ---------------------------------------------------------- gateway tier
VARIABLES
    gw_hr,                 \* GatewayDataBlock.values, 100 registers
    gw_total_received,
    gw_last_update,
    gw_n_writes,           \* history: number of setValues calls
    gw_last_write,         \* history: arguments of the last setValues call
    iec_connected,         \* IEC61850Client.connected
    total_updates,         \* ProtocolTranslator counters
    total_errors,
    last_update,
    cycle_writes,          \* the write_float calls of the last cycle, in order
    cycle_read,            \* history: the last cycle called get_registers
    n_cycles               \* history: number of translate_and_send calls

gw_vars == << gw_hr, gw_total_received, gw_last_update, gw_n_writes, gw_last_write,
              iec_connected, total_updates, total_errors, last_update,
              cycle_writes, cycle_read, n_cycles >>

\* setValues(address, values): store; a write that overlaps registers 0..4
\* updates total_received and last_update (no on_update_callback is ever set)
GatewayDataBlock_setValues(address, values) ==
    /\ gw_n_writes < MaxGwWrites
    /\ gw_hr' = BlockSetValues(gw_hr, address, values)
    /\ gw_n_writes' = gw_n_writes + 1
    /\ gw_last_write' = Some([address |-> address, values |-> values])
    /\ now' = now + 1
    /\ IF OverlapsWatched(address, values, GW_WATCHED_LAST)
       THEN /\ gw_total_received' = gw_total_received + 1
            /\ gw_last_update' = Some(now')
       ELSE UNCHANGED << gw_total_received, gw_last_update >>
    /\ UNCHANGED << iec_connected, total_updates, total_errors, last_update,
                    cycle_writes, cycle_read, n_cycles >>

\* config.IEC61850_MAPPING
IEC61850_MAPPING ==
    [ P_ac      |-> "MMXU1$MX$TotW$mag$f",
      V_dc      |-> "MMXU1$MX$PhV$phsA$cVal$mag$f",
      I_dc      |-> "MMXU1$MX$A$phsA$cVal$mag$f",
      G         |-> "MMXU1$MX$TotW$mag$f",
      Timestamp |-> "MMXU1$MX$TotW$t" ]

\* _validate_data(P_ac, V_dc, I_dc, G)
validate_data_no_G(P_ac, V_dc, I_dc, G) ==
    /\ ~(RatLess(P_ac, Rat(0, 1)) \/ RatLess(Rat(P_AC_MAX, 1), P_ac))
    /\ ~(RatLess(V_dc, Rat(0, 1)) \/ RatLess(Rat(V_DC_MAX, 1), V_dc))
    /\ ~(RatLess(I_dc, Rat(0, 1)) \/ RatLess(Rat(I_DC_MAX, 1), I_dc))
validate_data_open(P_ac, V_dc, I_dc, G) ==
    /\ RatLeq(Rat(0, 1), P_ac) /\ RatLess(P_ac, Rat(P_AC_MAX, 1))
    /\ RatLeq(Rat(0, 1), V_dc) /\ RatLess(V_dc, Rat(V_DC_MAX, 1))
    /\ RatLeq(Rat(0, 1), I_dc) /\ RatLess(I_dc, Rat(I_DC_MAX, 1))
    /\ RatLeq(Rat(0, 1), G) /\ RatLess(G, Rat(G_MAX, 1))
validate_data(P_ac, V_dc, I_dc, G) ==
    IF RatLess(P_ac, Rat(0, 1)) \/ RatLess(Rat(P_AC_MAX, 1), P_ac) THEN FALSE
    ELSE IF RatLess(V_dc, Rat(0, 1)) \/ RatLess(Rat(V_DC_MAX, 1), V_dc) THEN FALSE
    ELSE IF RatLess(I_dc, Rat(0, 1)) \/ RatLess(Rat(I_DC_MAX, 1), I_dc) THEN FALSE
    ELSE IF RatLess(G, Rat(0, 1)) \/ RatLess(Rat(G_MAX, 1), G) THEN FALSE
    ELSE TRUE

\* the decode of the 5 registers in translate_and_send (regs is 1-based here)
Decode5GFromTimestamp(regs) ==
    [ P_ac          |-> Rat(regs[1], 1),
      V_dc          |-> Rat(regs[2], V_SCALE),
      I_dc          |-> Rat(regs[3], I_SCALE),
      G             |-> Rat(regs[5], 1),
      timestamp_low |-> regs[5] ]
Decode5(regs) ==
    [ P_ac          |-> Rat(regs[1], 1),
      V_dc          |-> Rat(regs[2], V_SCALE),
      I_dc          |-> Rat(regs[3], I_SCALE),
      G             |-> Rat(regs[4], 1),
      timestamp_low |-> regs[5] ]

\* the write_float calls of a validated cycle, in order
CycleWritesVdcFirst(d) ==
    << [path |-> IEC61850_MAPPING.V_dc, value |-> d.V_dc],
       [path |-> IEC61850_MAPPING.P_ac, value |-> d.P_ac],
       [path |-> IEC61850_MAPPING.I_dc, value |-> d.I_dc] >>
CycleWritesNoIdc(d) ==
    << [path |-> IEC61850_MAPPING.P_ac, value |-> d.P_ac],
       [path |-> IEC61850_MAPPING.V_dc, value |-> d.V_dc] >>
CycleWrites(d) ==
    << [path |-> IEC61850_MAPPING.P_ac, value |-> d.P_ac],
       [path |-> IEC61850_MAPPING.V_dc, value |-> d.V_dc],
       [path |-> IEC61850_MAPPING.I_dc, value |-> d.I_dc] >>

\* one call of translate_and_send; results[i] is what the i-th write_float
\* returns.  write_float has no await inside, so the cycle is one step.
translate_and_send_short_circuit(results) ==
    /\ n_cycles < MaxCycles
    /\ n_cycles' = n_cycles + 1
    /\ now' = now + 1
    /\ cycle_read' = iec_connected
    /\ IF ~iec_connected
       THEN /\ cycle_writes' = <<>>
            /\ UNCHANGED << total_updates, total_errors, last_update >>
       ELSE LET regs == BlockGetValues(gw_hr, 0, GW_WATCHED_COUNT)
                d    == Decode5(regs)
            IN  IF ~validate_data(d.P_ac, d.V_dc, d.I_dc, d.G)
                THEN /\ cycle_writes' = <<>>
                     /\ total_errors' = total_errors + 1
                     /\ UNCHANGED << total_updates, last_update >>
                ELSE /\ cycle_writes' =
                            [i \in 1..(IF ~results[1] THEN 1
                                       ELSE IF ~results[2] THEN 2 ELSE 3) |->
                                [path  |-> CycleWrites(d)[i].path,
                                 value |-> CycleWrites(d)[i].value,
                                 ok    |-> results[i]]]
                     /\ IF \A i \in 1..Len(CycleWrites(d)) : results[i]
                        THEN /\ total_updates' = total_updates + 1
                             /\ last_update' = Some(now')
                             /\ total_errors' = total_errors
                        ELSE /\ total_errors' = total_errors + 1
                             /\ UNCHANGED << total_updates, last_update >>
    /\ UNCHANGED << gw_hr, gw_total_received, gw_last_update, gw_n_writes,
                    gw_last_write, iec_connected >>
translate_and_send_no_skip(results) ==
    /\ n_cycles < MaxCycles
    /\ n_cycles' = n_cycles + 1
    /\ now' = now + 1
    /\ cycle_read' = TRUE
    /\ LET regs == BlockGetValues(gw_hr, 0, GW_WATCHED_COUNT)
           d    == Decode5(regs)
       IN  IF ~validate_data(d.P_ac, d.V_dc, d.I_dc, d.G)
           THEN /\ cycle_writes' = <<>>
                /\ total_errors' = total_errors + 1
                /\ UNCHANGED << total_updates, last_update >>
           ELSE /\ cycle_writes' =
                       [i \in 1..Len(CycleWrites(d)) |->
                           [path  |-> CycleWrites(d)[i].path,
                            value |-> CycleWrites(d)[i].value,
                            ok    |-> iec_connected /\ results[i]]]
                /\ IF \A i \in 1..Len(CycleWrites(d)) : iec_connected /\ results[i]
                   THEN /\ total_updates' = total_updates + 1
                        /\ last_update' = Some(now')
                        /\ total_errors' = total_errors
                   ELSE /\ total_errors' = total_errors + 1
                        /\ UNCHANGED << total_updates, last_update >>
    /\ UNCHANGED << gw_hr, gw_total_received, gw_last_update, gw_n_writes,
                    gw_last_write, iec_connected >>
translate_and_send(results) ==
    /\ n_cycles < MaxCycles
    /\ n_cycles' = n_cycles + 1
    /\ now' = now + 1
    /\ cycle_read' = iec_connected
    /\ IF ~iec_connected
       THEN /\ cycle_writes' = <<>>
            /\ UNCHANGED << total_updates, total_errors, last_update >>
       ELSE LET regs == BlockGetValues(gw_hr, 0, GW_WATCHED_COUNT)
                d    == Decode5(regs)
            IN  IF ~validate_data(d.P_ac, d.V_dc, d.I_dc, d.G)
                THEN /\ cycle_writes' = <<>>
                     /\ total_errors' = total_errors + 1
                     /\ UNCHANGED << total_updates, last_update >>
                ELSE /\ cycle_writes' =
                            [i \in 1..Len(CycleWrites(d)) |->
                                [path  |-> CycleWrites(d)[i].path,
                                 value |-> CycleWrites(d)[i].value,
                                 ok    |-> results[i]]]
                     /\ IF \A i \in 1..Len(CycleWrites(d)) : results[i]
                        THEN /\ total_updates' = total_updates + 1
                             /\ last_update' = Some(now')
                             /\ total_errors' = total_errors
                        ELSE /\ total_errors' = total_errors + 1
                             /\ UNCHANGED << total_updates, last_update >>
    /\ UNCHANGED << gw_hr, gw_total_received, gw_last_update, gw_n_writes,
                    gw_last_write, iec_connected >>

\* IEC61850Client.disconnect(), called by shutdown()
IecDisconnect ==
    /\ iec_connected
    /\ iec_connected' = FALSE
    /\ now' = now + 1
    /\ UNCHANGED << gw_hr, gw_total_received, gw_last_update, gw_n_writes,
                    gw_last_write, total_updates, total_errors, last_update,
                    cycle_writes, cycle_read, n_cycles >>

\* ------------------------------------------------- gateway lifecycle
VARIABLES
    process,               \* the program a behaviour of SpecTasks follows
    gw_pc,                 \* where SubstationGateway.start is
    shutdown_event,        \* the asyncio.Event that signal_handler sets
    running,               \* ProtocolTranslator.running
    tr_pc,                 \* where the translator task is
    tr_raised,             \* history: the translator's last cycle raised
    stats_pc,              \* where _statistics_task is
    handler_pc,            \* where _shutdown_handler is
    server_pc,             \* where ModbusGatewayServer.start is
    final_stats,           \* shutdown() has logged the final counters
    stop_called            \* history: ProtocolTranslator.stop() has been called

life_vars == << process, gw_pc, shutdown_event, running, tr_pc, tr_raised,
                stats_pc, handler_pc, server_pc, final_stats, stop_called >>

gw_store_vars == << gw_hr, gw_total_received, gw_last_update, gw_n_writes,
                    gw_last_write >>
translator_vars == << total_updates, total_errors, last_update, cycle_writes,
                      cycle_read, n_cycles >>

\* signal_handler(sig, frame): shutdown_event.set()
signal_handler ==
    /\ ~shutdown_event
    /\ gw_pc \in {"connect", "gather"}
    /\ shutdown_event' = TRUE
    /\ UNCHANGED << process, gw_pc, running, tr_pc, tr_raised, stats_pc,
                    handler_pc, server_pc, final_stats, stop_called, gw_vars, now >>

\* start() up to its gather: await self.iec_client.connect().  connect()
\* either sets connected and returns, or sets connected = False and raises,
\* and start() raises it again.  After a connect the translator and the
\* statistics task are created, then gather() wraps the server and the
\* shutdown handler into tasks.
GwStart(ok) ==
    /\ gw_pc = "connect"
    /\ iec_connected' = ok
    /\ IF ok
       THEN /\ gw_pc' = "gather"
            /\ tr_pc' = "created"
            /\ stats_pc' = "created"
            /\ server_pc' = "created"
            /\ handler_pc' = "created"
       ELSE /\ gw_pc' = "connect_failed"
            /\ UNCHANGED << tr_pc, stats_pc, server_pc, handler_pc >>
    /\ UNCHANGED << process, shutdown_event, running, tr_raised, final_stats, stop_called,
                    gw_store_vars, translator_vars, now >>

\* ProtocolTranslator.run up to its next sleep.  The first step of the task
\* sets running = True and enters the loop; a later step is one iteration of
\* `while self.running`.  Here the cycle returns.
TranslatorLoop(results) ==
    /\ tr_pc \in {"created", "loop"}
    /\ tr_pc = "loop" => running
    /\ running' = TRUE
    /\ tr_pc' = "loop"
    /\ translate_and_send(results)
    /\ tr_raised' = FALSE
    /\ UNCHANGED << process, gw_pc, shutdown_event, stats_pc, handler_pc,
                    server_pc, final_stats, stop_called >>

\* one iteration whose cycle raises (in get_registers or the decode, before
\* any write or counter update): `except Exception` counts it, then the sleep
TranslatorLoopRaises ==
    /\ tr_pc \in {"created", "loop"}
    /\ tr_pc = "loop" => running
    /\ running' = TRUE
    /\ tr_pc' = "loop"
    /\ iec_connected
    /\ n_cycles < MaxCycles
    /\ n_cycles' = n_cycles + 1
    /\ now' = now + 1
    /\ cycle_read' = TRUE
    /\ cycle_writes' = <<>>
    /\ total_errors' = total_errors + 1
    /\ tr_raised' = TRUE
    /\ UNCHANGED << process, gw_pc, shutdown_event, stats_pc,
                    handler_pc, server_pc, final_stats, stop_called, gw_store_vars,
                    iec_connected, total_updates, last_update >>

\* the loop test fails after stop(): run() returns
TranslatorExit ==
    /\ tr_pc = "loop"
    /\ ~running
    /\ tr_pc' = "stopped"
    /\ UNCHANGED << process, gw_pc, shutdown_event, running, tr_raised,
                    stats_pc, handler_pc, server_pc, final_stats, stop_called, gw_vars, now >>

\* ProtocolTranslator.stop(): self.running = False.  The coroutine has no
\* await, so a caller that awaits it right after create_task(run()) runs it
\* before the task's first step.
TranslatorStop ==
    /\ tr_pc \in {"created", "loop", "stopped"}
    /\ running' = FALSE
    /\ stop_called' = TRUE
    /\ UNCHANGED << process, gw_pc, shutdown_event, tr_pc, tr_raised, stats_pc,
                    handler_pc, server_pc, final_stats, gw_vars, now >>

\* _statistics_task: `while not shutdown_event.is_set()`: sleep, report
StatisticsStep ==
    /\ stats_pc \in {"created", "sleep"}
    /\ stats_pc' = IF shutdown_event THEN "done" ELSE "sleep"
    /\ stats_pc' # stats_pc
    /\ UNCHANGED << process, gw_pc, shutdown_event, running, tr_pc, tr_raised,
                    handler_pc, server_pc, final_stats, stop_called, gw_vars, now >>

\* _shutdown_handler: await shutdown_event.wait(), then return
ShutdownHandlerStep ==
    /\ handler_pc \in {"created", "wait"}
    /\ handler_pc' = IF shutdown_event THEN "done" ELSE "wait"
    /\ handler_pc' # handler_pc
    /\ UNCHANGED << process, gw_pc, shutdown_event, running, tr_pc, tr_raised,
                    stats_pc, server_pc, final_stats, stop_called, gw_vars, now >>

\* ModbusGatewayServer.start: StartAsyncTcpServer either serves, and then never
\* returns, or raises (the port cannot be bound).  The server task was created
\* after the translator and the statistics task and starts after them.
ServerStart(ok) ==
    /\ server_pc = "created"
    /\ tr_pc # "created"
    /\ stats_pc # "created"
    /\ server_pc' = IF ok THEN "serving" ELSE "failed"
    /\ UNCHANGED << process, gw_pc, shutdown_event, running, tr_pc, tr_raised,
                    stats_pc, handler_pc, final_stats, stop_called, gw_vars, now >>

\* every awaitable handed to gather() has returned
GatherDone ==
    /\ server_pc = "done"
    /\ tr_pc = "stopped"
    /\ stats_pc = "done"
    /\ handler_pc = "done"

\* gather() is over, by the failure of one awaitable or because all of them
\* returned: the finally clause runs shutdown() (translator.stop(),
\* iec_client.disconnect(), the final statistics), then start() returns or
\* raises the failure
GwShutdown ==
    /\ gw_pc = "gather"
    /\ server_pc = "failed" \/ GatherDone
    /\ running' = FALSE
    /\ iec_connected' = FALSE
    /\ final_stats' = TRUE
    /\ stop_called' = TRUE
    /\ gw_pc' = IF GatherDone THEN "returned" ELSE "server_failed"
    /\ UNCHANGED << process, shutdown_event, tr_pc, tr_raised, stats_pc,
                    handler_pc, server_pc, gw_store_vars, translator_vars, now >>

\* main() has logged the failure of start() and returned: asyncio.run cancels
\* the tasks that are left and the process exits
ProcessExit ==
    /\ gw_pc \in {"connect_failed", "server_failed", "returned"}
    /\ gw_pc' = "exited"
    /\ tr_pc' = IF tr_pc \in {"created", "loop"} THEN "cancelled" ELSE tr_pc
    /\ stats_pc' = IF stats_pc \in {"created", "sleep"} THEN "cancelled" ELSE stats_pc
    /\ handler_pc' = IF handler_pc \in {"created", "wait"} THEN "cancelled"
                     ELSE handler_pc
    /\ server_pc' = IF server_pc \in {"created", "serving"} THEN "cancelled"
                    ELSE server_pc
    /\ UNCHANGED << process, shutdown_event, running, tr_raised, final_stats, stop_called,
                    gw_vars, now >>

\* ------------------------------------------------------------ encoder run
VARIABLES
    codec_in,              \* one row of the series and its unix time
    codec_regs,            \* the registers main() sends
    codec_out,             \* what the receiving setValues decodes
    codec_pc

codec_vars == << codec_in, codec_regs, codec_out, codec_pc >>

vars == << bridge_vars, loop_vars, sm_vars, gw_vars, life_vars, codec_vars, now >>

\* regs = [...] in main(): encode the row
CodecEncode ==
    /\ codec_pc = "row"
    /\ codec_regs' = Some(main_regs(codec_in[1].row, codec_in[1].unix_s))
    /\ codec_pc' = "sent"
    /\ UNCHANGED << codec_in, codec_out >>

\* the receiving block decodes the registers it was sent
CodecDecode ==
    /\ codec_pc = "sent"
    /\ codec_out' = Some(Decode8(codec_regs[1]))
    /\ codec_pc' = "decoded"
    /\ UNCHANGED << codec_in, codec_regs >>

\* ------------------------------------------------------------------ inputs
PyInt(n) == [neg |-> FALSE, bits |-> ToBits(n, 2 * WORD)]
TwoBits(i, j) == [k \in 1..(2 * WORD) |-> IF k = i \/ k = j THEN 1 ELSE 0]

\* unsigned 32-bit integers: every value with one or two bits set, 0, the
\* largest, the unix time of the end-to-end example
U32Samples ==
    { [neg |-> FALSE, bits |-> TwoBits(i, j)] : i, j \in 1..(2 * WORD) }
    \cup { PyInt(0), PyInt(1700000000), [neg |-> FALSE, bits |-> Ones(2 * WORD)] }

\* integers outside the unsigned 32-bit range
OutOfU32Samples ==
    { [neg |-> TRUE, bits |-> ToBits(5, 2 * WORD)],
      [neg |-> FALSE, bits |-> ToBits(0, 2 * WORD) \o <<1>>],
      [neg |-> FALSE, bits |-> ToBits(7, 2 * WORD) \o <<1, 1>>] }

\* voltages in millivolt steps: around 0, around 24 V, around the largest
\* encodable 6553.5 V, and some outside [0, 6553.5]
VdcSamples ==
    { Rat(5 * k, 1000) : k \in 0..40 }
    \cup { Rat(23900 + 5 * k, 1000) : k \in 0..40 }
    \cup { Rat(6553500 - 5 * k, 1000) : k \in 0..40 }
    \cup { Rat(6553501, 1000), Rat(6553550, 1000), Rat(6553551, 1000),
           Rat(7000000, 1000), Rat(0 - 1, 1000), Rat(0 - 50, 1000),
           Rat(0 - 51, 1000), Rat(0 - 24000, 1000) }

DefaultRow ==
    [ P_ac |-> Rat(1200, 1), P_dc |-> Rat(1150, 1), V_dc |-> Rat(24, 1),
      I_dc |-> Rat(5, 1), G |-> Rat(850, 1), T_cell |-> Rat(30, 1) ]

CodecInputs ==
    { [row |-> [DefaultRow EXCEPT !.V_dc = v], unix_s |-> PyInt(1700000000)] :
        v \in VdcSamples }
    \cup { [row |-> DefaultRow, unix_s |-> x] : x \in U32Samples \cup OutOfU32Samples }

\* the block of the end-to-end example: unix time 1700000000 in registers 6, 7
E2EPayload == << 1200, 1150, 240, 500, 850, 300, 25939, 61696 >>

Fill(n, v) == [i \in 1..n |-> v + i]

\* setValues calls of the bridge specification
BridgeWrites ==
    { << 0, E2EPayload >>,
      << 7, << 5, 6 >> >>,
      << 8, << 9 >> >> }

\* setValues calls of SpecStores: starts and lengths around the two watched
\* ranges, the end of the block, and one long write from inside the range
StoreWrites ==
    { << a, Fill(n, 10 * a) >> : a \in {0, 3, 4, 5, 7, 8, 98, 99}, n \in 1..MaxLen }
    \cup { << 0, E2EPayload >>, << 7, Fill(BLOCK_SIZE - 6, 0) >> }

\* the 5-register example of the gateway tier
GwExample == << 800, 205, 120, 600, 999 >>

\* register values of the gateway block around the validation bounds: the
\* example with one register replaced, and two blocks with several out of range
GwPayloads ==
    { [GwExample EXCEPT ![1] = v] : v \in {P_AC_MAX, P_AC_MAX + 1} }
    \cup { [GwExample EXCEPT ![2] = v] :
             v \in {V_DC_MAX * V_SCALE, V_DC_MAX * V_SCALE + 1} }
    \cup { [GwExample EXCEPT ![3] = v] :
             v \in {I_DC_MAX * I_SCALE, I_DC_MAX * I_SCALE + 1} }
    \cup { [GwExample EXCEPT ![4] = v] : v \in {G_MAX, G_MAX + 1} }
    \cup { GwExample,
           [GwExample EXCEPT ![5] = 0],
           << P_AC_MAX + 1, V_DC_MAX * V_SCALE + 1, 120, 600, 999 >>,
           << U16_MAX, U16_MAX, U16_MAX, U16_MAX, U16_MAX >> }

GatewayWrites ==
    { << 0, p >> : p \in GwPayloads }
    \cup { << 3, << G_MAX + 1, 7 >> >>, << 4, << 1, 2 >> >>, << 5, << 3 >> >> }

\* ---------------------------------------------------------- specifications
ZeroBlock == [i \in 1..BLOCK_SIZE |-> 0]

InitBridge ==
    /\ hr = ZeroBlock
    /\ pending = <<>>
    /\ buffer = <<>>
    /\ total_received = 0
    /\ total_forwarded = 0
    /\ total_dropped = 0
    /\ fw_pc = "sleep"
    /\ connected = FALSE
    /\ consecutive_failures = 0
    /\ buffer_count = 0
    /\ latest = None
    /\ tick_ops = <<>>
    /\ added = <<>>
    /\ n_writes = 0
    /\ n_watched = 0
    /\ last_write = None
    /\ send_streak = 0
    /\ conn_streak = 0
    /\ tick_end = "none"
    /\ client_open = FALSE

InitMeter ==
    /\ sm_hr = ZeroBlock
    /\ sm_total_received = 0
    /\ sm_total_served = 0
    /\ sm_last_update = None
    /\ sm_n_writes = 0
    /\ sm_last_write = None
    /\ sm_n_reads = 0
    /\ sm_last_read = None

InitGateway ==
    /\ gw_hr = ZeroBlock
    /\ gw_total_received = 0
    /\ gw_last_update = None
    /\ gw_n_writes = 0
    /\ gw_last_write = None
    /\ iec_connected = TRUE
    /\ total_updates = 0
    /\ total_errors = 0
    /\ last_update = None
    /\ cycle_writes = <<>>
    /\ cycle_read = FALSE
    /\ n_cycles = 0

InitCodecIdle ==
    /\ codec_in = None
    /\ codec_regs = None
    /\ codec_out = None
    /\ codec_pc = "idle"

InitCodec ==
    /\ codec_in \in { Some(x) : x \in CodecInputs }
    /\ codec_regs = None
    /\ codec_out = None
    /\ codec_pc = "row"

\* the substation gateway in operation: start() is in its gather, every task
\* has reached its wait
InitLife ==
    /\ process = "all"
    /\ gw_pc = "gather"
    /\ shutdown_event = FALSE
    /\ running = TRUE
    /\ tr_pc = "loop"
    /\ tr_raised = FALSE
    /\ stats_pc = "sleep"
    /\ handler_pc = "wait"
    /\ server_pc = "serving"
    /\ final_stats = FALSE
    /\ stop_called = FALSE

\* the substation gateway when start() is called
InitLifeStart ==
    /\ gw_pc = "connect"
    /\ shutdown_event = FALSE
    /\ running = FALSE
    /\ tr_pc = "none"
    /\ tr_raised = FALSE
    /\ stats_pc = "none"
    /\ handler_pc = "none"
    /\ server_pc = "none"
    /\ final_stats = FALSE
    /\ stop_called = FALSE

InitGatewayStart ==
    /\ gw_hr = ZeroBlock
    /\ gw_total_received = 0
    /\ gw_last_update = None
    /\ gw_n_writes = 0
    /\ gw_last_write = None
    /\ iec_connected = FALSE
    /\ total_updates = 0
    /\ total_errors = 0
    /\ last_update = None
    /\ cycle_writes = <<>>
    /\ cycle_read = FALSE
    /\ n_cycles = 0

\* the event loop before its first step: the lock is free, no call is open
InitLoop ==
    /\ lock = "free"
    /\ cur = "none"
    /\ op = [t \in Tasks |-> None]
    /\ ret = [t \in Tasks |-> None]

Init ==
    /\ InitBridge /\ InitLoop /\ InitMeter /\ InitGateway /\ InitLife
    /\ InitCodecIdle /\ now = 0

InitCodecRun ==
    /\ InitBridge /\ InitLoop /\ InitMeter /\ InitGateway /\ InitLife
    /\ InitCodec /\ now = 0

not_bridge == << loop_vars, sm_vars, gw_vars, life_vars, codec_vars, now >>

\* the bridge process: inbound writes, the enqueue tasks, the forwarder
BridgeSetValues ==
    /\ \E w \in BridgeWrites : StoringHoldingRegisterBlock_setValues(w[1], w[2])
    /\ UNCHANGED not_bridge
BridgeRunAddTask == RunAddTask /\ UNCHANGED not_bridge
ForwarderWake == FwWake /\ UNCHANGED not_bridge
ForwarderConnect == (\E ok \in BOOLEAN : FwConnect(ok)) /\ UNCHANGED not_bridge
ForwarderWrite ==
    (\E outcome \in WriteOutcomes : FwWrite(outcome)) /\ UNCHANGED not_bridge

Next ==
    \/ BridgeSetValues
    \/ BridgeRunAddTask
    \/ ForwarderWake
    \/ ForwarderConnect
    \/ ForwarderWrite

Spec == Init /\ [][Next]_vars

\* the event loop runs every task it holds
FairSpec == Spec /\ WF_vars(BridgeRunAddTask)

\* the bridge process with a connect that can raise and with the cancellation
\* of the forwarder task
ForwarderConnectRaises == FwConnectRaises /\ UNCHANGED not_bridge
ForwarderErrorSleep == FwErrorSleep /\ UNCHANGED not_bridge
ForwarderCancel == FwCancel /\ UNCHANGED not_bridge

NextCancel ==
    \/ BridgeSetValues
    \/ BridgeRunAddTask
    \/ ForwarderWake
    \/ ForwarderConnect
    \/ ForwarderWrite
    \/ ForwarderConnectRaises
    \/ ForwarderErrorSleep
    \/ ForwarderCancel

SpecCancel == Init /\ [][NextCancel]_vars

\* the three register stores under generated writes
StoreBudget == n_writes + sm_n_writes + gw_n_writes < MaxStoreWrites
StoreBridgeSetValues ==
    /\ StoreBudget
    /\ \E w \in StoreWrites : StoringHoldingRegisterBlock_setValues(w[1], w[2])
    /\ UNCHANGED not_bridge
StoreMeterSetValues ==
    /\ StoreBudget
    /\ \E w \in StoreWrites : SmartMeterDataBlock_setValues(w[1], w[2])
    /\ UNCHANGED << bridge_vars, loop_vars, gw_vars, life_vars, codec_vars >>
StoreGatewaySetValues ==
    /\ StoreBudget
    /\ \E w \in StoreWrites : GatewayDataBlock_setValues(w[1], w[2])
    /\ UNCHANGED << bridge_vars, loop_vars, sm_vars, life_vars, codec_vars >>

NextStores ==
    \/ StoreBridgeSetValues
    \/ BridgeRunAddTask
    \/ StoreMeterSetValues
    \/ StoreGatewaySetValues

SpecStores == Init /\ [][NextStores]_vars

\* the smart-meter block: writes of the sender, reads of the controller
MeterReads ==
    { << 0, 8 >>, << 0, 7 >>, << 0, 9 >>, << 1, 8 >>, << 0, 1 >>, << 8, 8 >>,
      << 92, 8 >> }

MeterSetValues ==
    /\ \E w \in BridgeWrites : SmartMeterDataBlock_setValues(w[1], w[2])
    /\ UNCHANGED << bridge_vars, loop_vars, gw_vars, life_vars, codec_vars >>
MeterGetValues ==
    /\ \E r \in MeterReads : SmartMeterDataBlock_getValues(r[1], r[2])
    /\ UNCHANGED << bridge_vars, loop_vars, gw_vars, life_vars, codec_vars >>

NextMeter ==
    \/ MeterSetValues
    \/ MeterGetValues

SpecMeter == Init /\ [][NextMeter]_vars

\* the gateway process: writes from the controller, the translator, shutdown
not_gateway == << bridge_vars, loop_vars, sm_vars, life_vars, codec_vars >>

GatewaySetValues ==
    /\ \E w \in GatewayWrites : GatewayDataBlock_setValues(w[1], w[2])
    /\ UNCHANGED not_gateway
TranslatorCycle ==
    /\ \E results \in [1..3 -> BOOLEAN] : translate_and_send(results)
    /\ UNCHANGED not_gateway
GatewayDisconnect == IecDisconnect /\ UNCHANGED not_gateway

NextGateway ==
    \/ GatewaySetValues
    \/ TranslatorCycle
    \/ GatewayDisconnect

SpecGateway == Init /\ [][NextGateway]_vars

\* a ProtocolTranslator under an owner that has connected the client and
\* created the task of run(), and that may call stop() at any later point
InitTranslator ==
    /\ InitBridge /\ InitLoop /\ InitMeter /\ InitGateway /\ InitCodecIdle
    /\ now = 0
    /\ process = "translator"
    /\ gw_pc = "none"
    /\ shutdown_event = FALSE
    /\ running = FALSE
    /\ tr_pc = "created"
    /\ tr_raised = FALSE
    /\ stats_pc = "none"
    /\ handler_pc = "none"
    /\ server_pc = "none"
    /\ final_stats = FALSE
    /\ stop_called = FALSE

not_translator == << bridge_vars, loop_vars, sm_vars, codec_vars >>

OwnerSetValues ==
    /\ \E w \in GatewayWrites : GatewayDataBlock_setValues(w[1], w[2])
    /\ UNCHANGED << not_translator, life_vars >>
OwnerTranslatorLoop ==
    /\ \E results \in [1..3 -> BOOLEAN] : TranslatorLoop(results)
    /\ UNCHANGED not_translator
OwnerTranslatorLoopRaises == TranslatorLoopRaises /\ UNCHANGED not_translator
OwnerTranslatorExit == TranslatorExit /\ UNCHANGED not_translator
OwnerTranslatorStop == TranslatorStop /\ UNCHANGED not_translator

NextTranslator ==
    \/ OwnerSetValues
    \/ OwnerTranslatorLoop
    \/ OwnerTranslatorLoopRaises
    \/ OwnerTranslatorExit
    \/ OwnerTranslatorStop

SpecTranslator == InitTranslator /\ [][NextTranslator]_vars

\* the event loop runs the translator task whenever it is ready
FairSpecTranslator ==
    /\ SpecTranslator
    /\ WF_vars(OwnerTranslatorLoop \/ OwnerTranslatorLoopRaises
                    \/ OwnerTranslatorExit)

\* the periodic tasks of the two gateways from their start: the forwarder with
\* a connect that can raise, and start() of the substation gateway with its
\* translator, statistics task, shutdown handler and server.  The two programs
\* are separate processes that share no state; a behaviour follows one of them.
InitTasks ==
    /\ InitBridge /\ InitLoop /\ InitMeter /\ InitGatewayStart /\ InitLifeStart
    /\ InitCodecIdle /\ now = 0
    /\ process \in {"bridge", "gateway"}

not_life == << bridge_vars, loop_vars, sm_vars, codec_vars >>

TaskSetValues == process = "bridge" /\ n_writes < MaxTaskWrites /\ BridgeSetValues
TaskRunAddTask == process = "bridge" /\ BridgeRunAddTask
TaskForwarderWake == process = "bridge" /\ ForwarderWake
TaskForwarderConnect == process = "bridge" /\ ForwarderConnect
TaskForwarderWrite == process = "bridge" /\ ForwarderWrite
TaskForwarderConnectRaises == process = "bridge" /\ ForwarderConnectRaises
TaskForwarderErrorSleep == process = "bridge" /\ ForwarderErrorSleep

TaskSignal == process = "gateway" /\ signal_handler /\ UNCHANGED not_life
TaskGwStart ==
    process = "gateway" /\ (\E ok \in BOOLEAN : GwStart(ok)) /\ UNCHANGED not_life
TaskTranslatorLoop ==
    /\ process = "gateway"
    /\ \E results \in [1..3 -> BOOLEAN] : TranslatorLoop(results)
    /\ UNCHANGED not_life
TaskTranslatorLoopRaises ==
    process = "gateway" /\ TranslatorLoopRaises /\ UNCHANGED not_life
TaskTranslatorExit == process = "gateway" /\ TranslatorExit /\ UNCHANGED not_life
TaskStatistics == process = "gateway" /\ StatisticsStep /\ UNCHANGED not_life
TaskShutdownHandler ==
    process = "gateway" /\ ShutdownHandlerStep /\ UNCHANGED not_life
TaskServerStart ==
    process = "gateway" /\ (\E ok \in BOOLEAN : ServerStart(ok)) /\ UNCHANGED not_life
TaskGwShutdown == process = "gateway" /\ GwShutdown /\ UNCHANGED not_life
TaskProcessExit == process = "gateway" /\ ProcessExit /\ UNCHANGED not_life

NextTasks ==
    \/ TaskSetValues
    \/ TaskRunAddTask
    \/ TaskForwarderWake
    \/ TaskForwarderConnect
    \/ TaskForwarderWrite
    \/ TaskForwarderConnectRaises
    \/ TaskForwarderErrorSleep
    \/ TaskSignal
    \/ TaskGwStart
    \/ TaskTranslatorLoop
    \/ TaskTranslatorLoopRaises
    \/ TaskTranslatorExit
    \/ TaskStatistics
    \/ TaskShutdownHandler
    \/ TaskServerStart
    \/ TaskGwShutdown
    \/ TaskProcessExit

SpecTasks == InitTasks /\ [][NextTasks]_vars

\* the event loop of each program runs every task that is ready
FairSpecTasks ==
    /\ SpecTasks
    /\ WF_vars(TaskRunAddTask)
    /\ WF_vars(TaskForwarderWake)
    /\ WF_vars(TaskForwarderConnect \/ TaskForwarderConnectRaises)
    /\ WF_vars(TaskForwarderWrite)
    /\ WF_vars(TaskForwarderErrorSleep)
    /\ WF_vars(TaskGwStart)
    /\ WF_vars(TaskTranslatorLoop \/ TaskTranslatorLoopRaises \/ TaskTranslatorExit)
    /\ WF_vars(TaskStatistics)
    /\ WF_vars(TaskShutdownHandler)
    /\ WF_vars(TaskServerStart)
    /\ WF_vars(TaskGwShutdown)
    /\ WF_vars(TaskProcessExit)

\* the bridge's event loop step by step: inbound writes, the enqueue tasks,
\* the forwarder, the statistics task and the diagnostic caller
not_loop == << sm_vars, gw_vars, life_vars, codec_vars, now >>

ApiCalls == { << "get_all_pending", 0 >>, << "mark_forwarded", 2 >> }

\* setValues calls of the event-loop specification: two watched writes that
\* give different records
LoopWrites == { << 0, E2EPayload >>, << 7, << 5, 6 >> >> }

\* a Modbus write arrives: the server's handler runs between two tasks
LoopSetValues ==
    /\ cur = "none"
    /\ n_writes < MaxLoopWrites
    /\ \E w \in LoopWrites : StoringHoldingRegisterBlock_setValues(w[1], w[2])
    /\ UNCHANGED not_bridge
\* the variables of the bridge an event-loop step leaves alone
store_vars == << hr, n_writes, n_watched, last_write >>
history_vars == << tick_ops, send_streak, conn_streak, tick_end, client_open >>
buffer_vars == << buffer, total_received, total_forwarded, total_dropped >>
forwarder_vars == << fw_pc, connected, consecutive_failures, buffer_count, latest >>

\* `async with self.lock`, entry: a free lock is taken at once and the task
\* goes on; a held lock suspends the task until it is released
LockAcquire(t) ==
    /\ OpAt(t, "acquire") \/ OpAt(t, "wait")
    /\ IF OpAt(t, "wait") THEN cur = "none" /\ ~Locked(lock) ELSE CanRun(t)
    /\ IF Locked(lock)
       THEN /\ op' = OpTo(t, "wait")
            /\ cur' = AfterStep(t, TRUE)
            /\ lock' = lock
       ELSE /\ op' = OpTo(t, "body")
            /\ cur' = AfterStep(t, FALSE)
            /\ lock' = acquire(lock, t)
    /\ UNCHANGED << ret, store_vars, history_vars, buffer_vars, forwarder_vars,
                    pending, added >>
    /\ UNCHANGED not_loop

\* the body of the method: no await inside
MethodBody(t) ==
    /\ OpAt(t, "body")
    /\ CanRun(t)
    /\ LET c == op[t][1]
           r == BufferCall(c.name,
                           [buffer |-> buffer, total_received |-> total_received,
                            total_dropped |-> total_dropped,
                            total_forwarded |-> total_forwarded],
                           IF c.name = "add" THEN Head(pending) ELSE c.arg)
       IN  /\ buffer' = r.buffer
           /\ total_received' = r.total_received
           /\ total_dropped' = r.total_dropped
           /\ total_forwarded' = r.total_forwarded
           /\ ret' = [ret EXCEPT ![t] = r.ret]
           /\ added' = IF c.name = "add" THEN Append(added, Head(pending)) ELSE added
           /\ op' = OpTo(t, IF UsesLock(c.name) THEN "release" ELSE "return")
    /\ cur' = AfterStep(t, FALSE)
    /\ UNCHANGED << lock, store_vars, history_vars, forwarder_vars, pending >>
    /\ UNCHANGED not_loop

\* `async with self.lock`, exit
LockRelease(t) ==
    /\ OpAt(t, "release")
    /\ CanRun(t)
    /\ lock' = release(lock)
    /\ op' = OpTo(t, "return")
    /\ cur' = AfterStep(t, FALSE)
    /\ UNCHANGED << ret, store_vars, history_vars, buffer_vars, forwarder_vars,
                    pending, added >>
    /\ UNCHANGED not_loop

\* the loop starts the oldest enqueue task: telemetry_buffer.add(regs, ts)
AddTaskStart ==
    /\ pending # <<>>
    /\ op["add"] = None
    /\ cur = "none"
    /\ op' = [op EXCEPT !["add"] = Call("add", 0)]
    /\ cur' = AfterStep("add", FALSE)
    /\ UNCHANGED << lock, ret, store_vars, history_vars, buffer_vars,
                    forwarder_vars, pending, added >>
    /\ UNCHANGED not_loop

\* add() has returned: the task is over
AddTaskEnd ==
    /\ OpAt("add", "return")
    /\ CanRun("add")
    /\ op' = [op EXCEPT !["add"] = None]
    /\ pending' = Tail(pending)
    /\ cur' = AfterStep("add", TRUE)
    /\ UNCHANGED << lock, ret, store_vars, history_vars, buffer_vars,
                    forwarder_vars, added >>
    /\ UNCHANGED not_loop

\* the forwarder's sleep is over: buffer_count = await get_count()
LoopFwWake ==
    /\ fw_pc = "sleep"
    /\ cur = "none"
    /\ fw_pc' = "get_count"
    /\ op' = [op EXCEPT !["forwarder"] = Call("get_count", 0)]
    /\ cur' = AfterStep("forwarder", FALSE)
    /\ UNCHANGED << lock, ret, store_vars, history_vars, buffer_vars, connected,
                    consecutive_failures, buffer_count, latest, pending, added >>
    /\ UNCHANGED not_loop

\* get_count() has returned: skip an empty buffer, await client.connect() when
\* disconnected, else call get_latest()
LoopFwCounted ==
    /\ fw_pc = "get_count"
    /\ OpAt("forwarder", "return")
    /\ CanRun("forwarder")
    /\ buffer_count' = ret["forwarder"][1]
    /\ ret' = [ret EXCEPT !["forwarder"] = None]
    /\ IF buffer_count' = 0
       THEN /\ fw_pc' = "sleep"
            /\ op' = [op EXCEPT !["forwarder"] = None]
            /\ cur' = AfterStep("forwarder", TRUE)
       ELSE IF ~connected
       THEN /\ fw_pc' = "connect"
            /\ op' = [op EXCEPT !["forwarder"] = None]
            /\ cur' = AfterStep("forwarder", TRUE)
       ELSE /\ fw_pc' = "get_latest"
            /\ op' = [op EXCEPT !["forwarder"] = Call("get_latest", 0)]
            /\ cur' = AfterStep("forwarder", FALSE)
    /\ UNCHANGED << lock, store_vars, history_vars, buffer_vars, connected,
                    consecutive_failures, latest, pending, added >>
    /\ UNCHANGED not_loop

\* client.connect() has returned: a failure ends the tick, a success goes on
\* to get_latest()
LoopFwConnect(ok) ==
    /\ fw_pc = "connect"
    /\ cur = "none"
    /\ ok \/ consecutive_failures < MaxFailures
    /\ connected' = ok
    /\ IF ok
       THEN /\ consecutive_failures' = 0
            /\ fw_pc' = "get_latest"
            /\ op' = [op EXCEPT !["forwarder"] = Call("get_latest", 0)]
            /\ cur' = AfterStep("forwarder", FALSE)
       ELSE /\ consecutive_failures' = consecutive_failures + 1
            /\ fw_pc' = "sleep"
            /\ op' = op
            /\ cur' = AfterStep("forwarder", TRUE)
    /\ UNCHANGED << lock, ret, store_vars, history_vars, buffer_vars,
                    buffer_count, latest, pending, added >>
    /\ UNCHANGED not_loop

\* get_latest() has returned: await client.write_registers() unless it is None
LoopFwLatest ==
    /\ fw_pc = "get_latest"
    /\ OpAt("forwarder", "return")
    /\ CanRun("forwarder")
    /\ latest' = ret["forwarder"][1]
    /\ ret' = [ret EXCEPT !["forwarder"] = None]
    /\ op' = [op EXCEPT !["forwarder"] = None]
    /\ fw_pc' = IF latest' = None THEN "sleep" ELSE "write"
    /\ cur' = AfterStep("forwarder", TRUE)
    /\ UNCHANGED << lock, store_vars, history_vars, buffer_vars, connected,
                    consecutive_failures, buffer_count, pending, added >>
    /\ UNCHANGED not_loop

\* write_registers() has returned or raised: a success calls
\* mark_forwarded(1), a failure is counted and ends the tick with the
\* threshold test
LoopFwWrite(outcome) ==
    /\ fw_pc = "write"
    /\ cur = "none"
    /\ outcome = "ok" => total_forwarded < MaxForwarded
    /\ IF outcome = "ok"
       THEN /\ fw_pc' = "mark_forwarded"
            /\ op' = [op EXCEPT !["forwarder"] = Call("mark_forwarded", 1)]
            /\ cur' = AfterStep("forwarder", FALSE)
            /\ UNCHANGED << connected, consecutive_failures >>
       ELSE /\ LET failures == consecutive_failures + 1
                   conn     == IF outcome = "exception" THEN FALSE ELSE connected
               IN  IF Threshold(failures)
                   THEN connected' = FALSE /\ consecutive_failures' = 0
                   ELSE connected' = conn /\ consecutive_failures' = failures
            /\ fw_pc' = "sleep"
            /\ op' = op
            /\ cur' = AfterStep("forwarder", TRUE)
    /\ UNCHANGED << lock, ret, store_vars, history_vars, buffer_vars,
                    buffer_count, latest, pending, added >>
    /\ UNCHANGED not_loop

\* mark_forwarded(1) has returned: consecutive_failures = 0, the threshold
\* test, the next sleep
LoopFwMarked ==
    /\ fw_pc = "mark_forwarded"
    /\ OpAt("forwarder", "return")
    /\ CanRun("forwarder")
    /\ consecutive_failures' = 0
    /\ op' = [op EXCEPT !["forwarder"] = None]
    /\ fw_pc' = "sleep"
    /\ cur' = AfterStep("forwarder", TRUE)
    /\ UNCHANGED << lock, ret, store_vars, history_vars, buffer_vars, connected,
                    buffer_count, latest, pending, added >>
    /\ UNCHANGED not_loop

\* statistics_task: its sleep is over, buffer_count = await get_count()
StatisticsWake ==
    /\ op["stats"] = None
    /\ cur = "none"
    /\ op' = [op EXCEPT !["stats"] = Call("get_count", 0)]
    /\ cur' = AfterStep("stats", FALSE)
    /\ UNCHANGED << lock, ret, store_vars, history_vars, buffer_vars,
                    forwarder_vars, pending, added >>
    /\ UNCHANGED not_loop

\* statistics_task: get_count() has returned, the counters are logged, the
\* next sleep
StatisticsReport ==
    /\ OpAt("stats", "return")
    /\ CanRun("stats")
    /\ op' = [op EXCEPT !["stats"] = None]
    /\ ret' = [ret EXCEPT !["stats"] = None]
    /\ cur' = AfterStep("stats", TRUE)
    /\ UNCHANGED << lock, store_vars, history_vars, buffer_vars, forwarder_vars,
                    pending, added >>
    /\ UNCHANGED not_loop

\* a caller of the methods the bridge itself does not call: get_all_pending(),
\* and mark_forwarded(count) with a count other than 1
ApiCall(name, arg) ==
    /\ op["api"] = None
    /\ cur = "none"
    /\ name = "mark_forwarded" => total_forwarded + arg <= MaxMarked
    /\ op' = [op EXCEPT !["api"] = Call(name, arg)]
    /\ ret' = [ret EXCEPT !["api"] = None]
    /\ cur' = AfterStep("api", FALSE)
    /\ UNCHANGED << lock, store_vars, history_vars, buffer_vars, forwarder_vars,
                    pending, added >>
    /\ UNCHANGED not_loop

\* the call has returned to the caller
ApiReturn ==
    /\ OpAt("api", "return")
    /\ CanRun("api")
    /\ op' = [op EXCEPT !["api"] = None]
    /\ ret' = [ret EXCEPT !["api"] = None]
    /\ cur' = AfterStep("api", TRUE)
    /\ UNCHANGED << lock, store_vars, history_vars, buffer_vars,
                    forwarder_vars, pending, added >>
    /\ UNCHANGED not_loop

NextLoop ==
    \/ LoopSetValues
    \/ (\E t \in Tasks : LockAcquire(t))
    \/ (\E t \in Tasks : MethodBody(t))
    \/ (\E t \in Tasks : LockRelease(t))
    \/ AddTaskStart
    \/ AddTaskEnd
    \/ LoopFwWake
    \/ LoopFwCounted
    \/ (\E ok \in BOOLEAN : LoopFwConnect(ok))
    \/ LoopFwLatest
    \/ (\E outcome \in WriteOutcomes : LoopFwWrite(outcome))
    \/ LoopFwMarked
    \/ StatisticsWake
    \/ StatisticsReport
    \/ (\E c \in ApiCalls : ApiCall(c[1], c[2]))
    \/ ApiReturn

SpecLoop == Init /\ [][NextLoop]_vars

\* the same loop under fair scheduling, with writes of the example payload
FairLoopSetValues ==
    /\ cur = "none"
    /\ n_writes < MaxFairWrites
    /\ StoringHoldingRegisterBlock_setValues(0, E2EPayload)
    /\ UNCHANGED not_bridge

NextFairLoop ==
    \/ FairLoopSetValues
    \/ (\E t \in Tasks : LockAcquire(t))
    \/ (\E t \in Tasks : MethodBody(t))
    \/ (\E t \in Tasks : LockRelease(t))
    \/ AddTaskStart
    \/ AddTaskEnd
    \/ LoopFwWake
    \/ LoopFwCounted
    \/ (\E ok \in BOOLEAN : LoopFwConnect(ok))
    \/ LoopFwLatest
    \/ (\E outcome \in WriteOutcomes : LoopFwWrite(outcome))
    \/ LoopFwMarked
    \/ StatisticsWake
    \/ StatisticsReport
    \/ (\E c \in ApiCalls : ApiCall(c[1], c[2]))
    \/ ApiReturn

\* the running task takes its next step, and the loop's ready queue is first
\* in first out, so a created enqueue task is started
FairSpecLoop ==
    /\ Init /\ [][NextFairLoop]_vars
    /\ \A t \in Tasks :
          WF_vars(LockAcquire(t) \/ MethodBody(t) \/ LockRelease(t))
    /\ SF_vars(AddTaskStart)
    /\ WF_vars(AddTaskEnd)
    /\ WF_vars(LoopFwCounted)
    /\ WF_vars(LoopFwLatest)
    /\ WF_vars(LoopFwMarked)
    /\ WF_vars(StatisticsReport)
    /\ WF_vars(ApiReturn)

\* the sender's encoder and the receiver's decoder on one row
EncodeRow == CodecEncode /\ UNCHANGED << bridge_vars, loop_vars, sm_vars, gw_vars, life_vars, now >>
DecodeRow == CodecDecode /\ UNCHANGED << bridge_vars, loop_vars, sm_vars, gw_vars, life_vars, now >>

NextCodec ==
    \/ EncodeRow
    \/ DecodeRow

SpecCodec == InitCodecRun /\ [][NextCodec]_vars

\* ==================================================================== claims

\* C1: with capacity N, after m add() calls (interleaved with the forwarder's
\* get_count, get_latest and mark_forwarded calls) the buffer holds exactly
\* min(N, m) records, they are the most recently added ones in insertion
\* order, total_received = m and total_dropped = max(0, m - N).
C1_OverflowPolicy ==
    LET m == Len(added)
        N == BUFFER_MAX_SIZE
    IN  /\ Len(buffer) = Min(N, m)
        /\ buffer = SubSeq(added, m - Min(N, m) + 1, m)
        /\ total_received = m
        /\ total_dropped = Max(0, m - N)

\* a full buffer has evicted a record, and the forwarder has forwarded one
C1_Witness ==
    /\ Len(added) > BUFFER_MAX_SIZE
    /\ total_dropped >= 1
    /\ total_forwarded >= 1

\* C2: get_latest() returns None if and only if the buffer is empty; otherwise
\* it returns the record of the most recent add(), whatever get_count() and
\* mark_forwarded() calls came in between.
C2_GetLatest ==
    /\ get_latest(buffer) = None <=> buffer = <<>>
    /\ added = <<>> => get_latest(buffer) = None
    /\ added # <<>> => get_latest(buffer) = Some(added[Len(added)])
    /\ fw_pc = "write" => latest # None /\ \E i \in 1..Len(added) : latest = Some(added[i])

\* the forwarder has fetched the latest of several records after forwarding one
C2_Witness ==
    /\ Len(added) >= 2
    /\ total_forwarded >= 1
    /\ fw_pc = "write"
    /\ latest = Some(added[Len(added)])
    /\ added[Len(added)] # added[1]

\* C3 as stated: after 3 consecutive failed sends, whatever their kind and
\* whatever reconnects happen in between, the forwarder is Disconnected with
\* consecutive_failures = 0, and the next tick with data starts with a connect.
C3_Original ==
    [][ /\ (send_streak = 2 /\ send_streak' = 3)
            => (connected' = FALSE /\ consecutive_failures' = 0)
        /\ (send_streak = 3 /\ fw_pc = "sleep" /\ fw_pc' # "sleep")
            => fw_pc' = "connect" ]_vars

\* C3 amended: after 3 consecutive failed sends with no successful (re)connect
\* in between, the forwarder is Disconnected with consecutive_failures = 0, and
\* the next tick with a non-empty buffer starts with a connect attempt.
C3_Amended ==
    [][ /\ (conn_streak = 2 /\ conn_streak' = 3)
            => (connected' = FALSE /\ consecutive_failures' = 0)
        /\ (conn_streak = 3 /\ fw_pc = "sleep" /\ fw_pc' # "sleep")
            => (fw_pc' = "connect" /\ tick_ops' = <<>>) ]_vars

\* three sends failed on one connection, and the tick after them has connected
C3_Witness ==
    /\ conn_streak = 3
    /\ send_streak = 3
    /\ tick_ops = << "connect" >>

\* a field of the 5-register snapshot h is outside its allowed range
OutOfBounds(h) ==
    \/ h[1] > 10000
    \/ h[2] > 1000
    \/ h[3] > 5000
    \/ h[4] > 1500

\* C4: a translate_and_send cycle with the client connected and a decoded
\* field out of range issues no downstream write, adds exactly 1 to
\* total_errors and leaves total_updates and last_update unchanged.
C4_InvalidCycle ==
    [][ (n_cycles' = n_cycles + 1 /\ iec_connected /\ OutOfBounds(gw_hr))
        => /\ cycle_writes' = <<>>
           /\ total_errors' = total_errors + 1
           /\ total_updates' = total_updates
           /\ last_update' = last_update ]_vars

\* the second cycle ran connected on a block whose G register is 1501: it
\* counted one error and wrote nothing, after a first cycle that succeeded
C4_Witness ==
    /\ n_cycles = 2
    /\ total_updates = 1
    /\ total_errors = 1
    /\ cycle_writes = <<>>
    /\ iec_connected
    /\ OutOfBounds(gw_hr)
    /\ gw_hr[4] = 1501

\* C5: a cycle with the client connected, every field in range and every
\* write succeeding issues exactly 3 writes, to the P_ac, V_dc and I_dc paths
\* in this order with the decoded values, adds exactly 1 to total_updates,
\* sets last_update and leaves total_errors unchanged.
C5_ValidCycle ==
    [][ ( /\ n_cycles' = n_cycles + 1
          /\ iec_connected
          /\ ~OutOfBounds(gw_hr)
          /\ \A i \in 1..Len(cycle_writes') : cycle_writes'[i].ok )
        => /\ Len(cycle_writes') = 3
           /\ cycle_writes'[1].path = "MMXU1$MX$TotW$mag$f"
           /\ cycle_writes'[2].path = "MMXU1$MX$PhV$phsA$cVal$mag$f"
           /\ cycle_writes'[3].path = "MMXU1$MX$A$phsA$cVal$mag$f"
           /\ cycle_writes'[1].value[1] = gw_hr[1] * cycle_writes'[1].value[2]
           /\ cycle_writes'[2].value[1] * 10 = gw_hr[2] * cycle_writes'[2].value[2]
           /\ cycle_writes'[3].value[1] * 100 = gw_hr[3] * cycle_writes'[3].value[2]
           /\ total_updates' = total_updates + 1
           /\ last_update' # last_update
           /\ last_update' = Some(now')
           /\ total_errors' = total_errors ]_vars

\* the example block [800, 205, 120, 600, 999] was translated in one cycle
C5_Witness ==
    /\ n_cycles = 1
    /\ total_updates = 1
    /\ total_errors = 0
    /\ Len(cycle_writes) = 3
    /\ SubSeq(gw_hr, 1, 5) = << 800, 205, 120, 600, 999 >>
    /\ last_update # None

\* C6: a write of [1200,1150,240,500,850,300,25939,61696] at register 0 hands
\* exactly one record to the buffer; its registers decode to P_ac = 1200,
\* P_dc = 1150, V_dc = 24.0, I_dc = 5.00, G = 850, T_cell = 30.0, its source
\* timestamp is 1700000000 s, and adding it raises total_received by exactly 1.
C6_EndToEnd ==
    [][ /\ ( /\ n_writes' = n_writes + 1
             /\ last_write' = Some([address |-> 0,
                    values |-> << 1200, 1150, 240, 500, 850, 300, 25939, 61696 >>]) )
           => /\ Len(pending') = Len(pending) + 1
              /\ SubSeq(pending', 1, Len(pending)) = pending
              /\ LET t == pending'[Len(pending')]
                     d == Decode8(t.registers)
                 IN  /\ t.registers = << 1200, 1150, 240, 500, 850, 300, 25939, 61696 >>
                     /\ d.P_ac[1] = 1200 * d.P_ac[2]
                     /\ d.P_dc[1] = 1150 * d.P_dc[2]
                     /\ d.V_dc[1] = 24 * d.V_dc[2]
                     /\ d.I_dc[1] = 5 * d.I_dc[2]
                     /\ d.G[1] = 850 * d.G[2]
                     /\ d.T_cell[1] = 30 * d.T_cell[2]
                     /\ d.unix_s = ToBits(1700000000, 32)
                     /\ t.timestamp = ToBits(1700000000, 32)
        /\ ( /\ pending # <<>>
             /\ pending' = Tail(pending)
             /\ Head(pending).registers =
                    << 1200, 1150, 240, 500, 850, 300, 25939, 61696 >> )
           => /\ total_received' = total_received + 1
              /\ added' = Append(added, Head(pending))
              /\ buffer'[Len(buffer')] = Head(pending) ]_vars

\* the record of the end-to-end example is the only one received, and is buffered
C6_Witness ==
    /\ total_received = 1
    /\ Len(buffer) = 1
    /\ buffer[1].registers = << 1200, 1150, 240, 500, 850, 300, 25939, 61696 >>
    /\ buffer[1].timestamp = ToBits(1700000000, 32)
    /\ pending = <<>>

\* the integer is an unsigned 32-bit one
IsU32(x) == ~x.neg /\ ~Exceeds(x.bits, 32)

\* C7: for every unsigned 32-bit x, the two words pack_u32_to_2x_u16(x) puts in
\* registers 6 and 7 are in [0, 65535], and the timestamp the receiving
\* setValues reassembles from them is x.
C7_TimestampRoundTrip ==
    /\ (codec_pc \in {"sent", "decoded"} /\ IsU32(codec_in[1].unix_s))
        => /\ codec_regs[1][7] \in 0..65535
           /\ codec_regs[1][8] \in 0..65535
           /\ ToBits(codec_regs[1][7], 16) = SubSeq(Norm(codec_in[1].unix_s.bits, 32), 17, 32)
           /\ ToBits(codec_regs[1][8], 16) = SubSeq(Norm(codec_in[1].unix_s.bits, 32), 1, 16)
    /\ (codec_pc = "decoded" /\ IsU32(codec_in[1].unix_s))
        => codec_out[1].unix_s = Norm(codec_in[1].unix_s.bits, 32)

\* the unix time 2^31 + 1 went through the two registers 32768 and 1
C7_Witness ==
    /\ codec_pc = "decoded"
    /\ codec_in[1].unix_s.bits = [k \in 1..32 |-> IF k \in {1, 32} THEN 1 ELSE 0]
    /\ ~codec_in[1].unix_s.neg
    /\ codec_regs[1][7] = 32768
    /\ codec_regs[1][8] = 1
    /\ codec_out[1].unix_s = codec_in[1].unix_s.bits

\* the voltage is in [0, 6553.5]
InVdcRange(v) == 0 <= v[1] /\ v[1] * 10 <= 65535 * v[2]

\* C8: for every voltage v in [0, 6553.5], the register u16(round(v * 10))
\* decodes (register / 10) to a value within 0.1 of v, and u16 does not clamp:
\* the register is round(v * 10) itself.
C8_VdcRoundTrip ==
    /\ (codec_pc \in {"sent", "decoded"} /\ InVdcRange(codec_in[1].row.V_dc))
        => /\ codec_regs[1][3] = round(<< codec_in[1].row.V_dc[1] * 10,
                                          codec_in[1].row.V_dc[2] >>)
           /\ codec_regs[1][3] \in 0..65535
    /\ (codec_pc = "decoded" /\ InVdcRange(codec_in[1].row.V_dc))
        => LET v == codec_in[1].row.V_dc
               r == codec_out[1].V_dc
           IN  Abs(r[1] * v[2] - v[1] * r[2]) * 10 <= r[2] * v[2]

\* 24.05 V was encoded as 240 (round half to even) and decoded as 24.0 V
C8_Witness ==
    /\ codec_pc = "decoded"
    /\ codec_in[1].row.V_dc = << 24050, 1000 >>
    /\ codec_regs[1][3] = 240
    /\ codec_out[1].V_dc = << 240, 10 >>

\* the block b holds the write w, if w lies inside the block
Holds(b, w) ==
    w.address + Len(w.values) <= 100
        => \A i \in 1..Len(w.values) : b[w.address + i] = w.values[i]

C10_EveryWriteAdded ==
    /\ [](total_received + Len(pending) = n_watched)
    /\ [][ /\ n_watched' = n_watched + 1
              => /\ Len(pending') = Len(pending) + 1
                 /\ SubSeq(pending', 1, Len(pending)) = pending
                 /\ pending'[Len(pending')].registers = SubSeq(hr', 1, 8)
           /\ (n_writes' = n_writes + 1 /\ n_watched' = n_watched)
              => pending' = pending
           /\ total_received' # total_received
              => /\ pending # <<>>
                 /\ pending' = Tail(pending)
                 /\ total_received' = total_received + 1
                 /\ added' = Append(added, Head(pending)) ]_vars
    /\ \A k \in 1..MaxWrites : (n_watched >= k) ~> (total_received >= k)

\* three overlapping writes gave three records: the second write changed no
\* value, the third changed only register 7
C10_Witness ==
    /\ n_watched = 3
    /\ total_received = 3
    /\ Len(added) = 3
    /\ added[1] = added[2]
    /\ added[3].registers = << 1200, 1150, 240, 500, 850, 300, 25939, 5 >>

\* the write w does not lie fully inside the 100-register block
OutsideBlock(w) == w.address < 0 \/ w.address + Len(w.values) > 100

\* C11: a setValues call whose interval is not fully inside the 100-register
\* block leaves every register, the block size and all counters unchanged and
\* triggers no watched-range side effect (no record, no total_received or
\* last_update change); every block keeps its 100 registers.
C11_RangeSafety ==
    [][ /\ (n_writes' = n_writes + 1 /\ OutsideBlock(last_write'[1]))
           => /\ hr' = hr
              /\ pending' = pending
              /\ total_received' = total_received
              /\ total_dropped' = total_dropped
        /\ (sm_n_writes' = sm_n_writes + 1 /\ OutsideBlock(sm_last_write'[1]))
           => /\ sm_hr' = sm_hr
              /\ sm_total_received' = sm_total_received
              /\ sm_total_served' = sm_total_served
              /\ sm_last_update' = sm_last_update
        /\ Len(hr') = 100 /\ Len(sm_hr') = 100 /\ Len(gw_hr') = 100 ]_vars

\* the smart-meter block counted a write of registers 7..100, which it did not store
C11_Witness ==
    /\ sm_last_write # None
    /\ sm_last_write[1].address = 7
    /\ Len(sm_last_write[1].values) = 94
    /\ sm_total_received = 1
    /\ sm_n_writes = 1
    /\ sm_hr = ZeroBlock

\* C12: SmartMeterDataBlock.getValues(address, count) adds exactly 1 to
\* total_served if and only if address = 0 and count = 8; every other read
\* leaves total_served unchanged; no read changes a register, total_received
\* or last_update, and the read returns the requested slice.
C12_ServedCount ==
    [][ sm_n_reads' = sm_n_reads + 1
        => LET r == sm_last_read'[1]
           IN  /\ (r.address = 0 /\ r.count = 8)
                    <=> sm_total_served' = sm_total_served + 1
               /\ ~(r.address = 0 /\ r.count = 8)
                    => sm_total_served' = sm_total_served
               /\ sm_hr' = sm_hr
               /\ sm_total_received' = sm_total_received
               /\ sm_last_update' = sm_last_update
               /\ \A i \in 1..Len(r.values) : r.values[i] = sm_hr[r.address + i] ]_vars

\* after a stored write, a read of registers 0..6 was not counted and a read
\* of registers 0..7 was
C12_Witness ==
    /\ sm_n_reads = 2
    /\ sm_n_writes = 1
    /\ sm_last_read[1].address = 0
    /\ sm_last_read[1].count = 8
    /\ sm_last_read[1].values = << 1200, 1150, 240, 500, 850, 300, 25939, 61696 >>
    /\ sm_total_served >= 1
    /\ sm_total_received = 1

\* C13: whenever a send attempt in the Connected state fails, by an exception
\* or by an error reply, consecutive_failures is incremented (and reset by the
\* threshold when it reaches 3) and the forwarder is Disconnected at the end
\* of that tick, so the next tick with data starts with a connect attempt.
C13_SendFailure ==
    [][ /\ (fw_pc = "write" /\ send_streak' = send_streak + 1)
           => /\ connected
              /\ \/ consecutive_failures' = consecutive_failures + 1
                 \/ consecutive_failures + 1 >= 3 /\ consecutive_failures' = 0
              /\ connected' = FALSE
        /\ (fw_pc = "sleep" /\ send_streak >= 1 /\ fw_pc' # "sleep")
           => fw_pc' = "connect" ]_vars

\* a send failed, and the forwarder sleeps Connected with one failure counted
C13_Witness ==
    /\ fw_pc = "sleep"
    /\ tick_ops = << "write" >>
    /\ send_streak = 1
    /\ consecutive_failures = 1
    /\ connected

\* C14: consecutive_failures never stays at 3: at the end of every tick (the
\* forwarder is back in its sleep) it is in 0..2, and it never exceeds 3,
\* whatever mix of connect failures and send failures raised it.
C14_FailureBound ==
    /\ fw_pc = "sleep" => consecutive_failures \in 0..2
    /\ consecutive_failures <= 3

\* four connect attempts in a row failed and all four are counted
C14_Witness ==
    /\ fw_pc = "sleep"
    /\ tick_ops = << "connect" >>
    /\ ~connected
    /\ consecutive_failures = 4
    /\ send_streak = 0

\* C15: every successful send and every successful connect sets
\* consecutive_failures to 0; a successful connect takes the forwarder from
\* Disconnected to Connected; the only other event that sets the counter to 0
\* is the threshold reset (a failed send that raises it to 3).
C15_SuccessResets ==
    [][ LET connect_ok == fw_pc = "connect" /\ fw_pc' # "connect" /\ connected'
            send       == fw_pc = "write" /\ fw_pc' # "write"
            send_ok    == send /\ send_streak' # send_streak + 1
            reset      == send /\ send_streak' = send_streak + 1
                            /\ consecutive_failures + 1 >= 3
        IN  /\ connect_ok => (~connected /\ connected' /\ consecutive_failures' = 0)
            /\ send_ok => consecutive_failures' = 0
            /\ (consecutive_failures # 0 /\ consecutive_failures' = 0)
                  => (connect_ok \/ send_ok \/ reset)
            /\ reset => (consecutive_failures' = 0 /\ ~connected') ]_vars

\* a reconnect after a failed send succeeded and cleared the counter
C15_Witness ==
    /\ fw_pc = "write"
    /\ tick_ops = << "connect" >>
    /\ connected
    /\ consecutive_failures = 0
    /\ send_streak >= 1
    /\ conn_streak = 0

\* C16: a forwarder tick that finds the TelemetryBuffer empty ends at once: no
\* connect attempt, no downstream write, and connected, consecutive_failures,
\* the buffer and its three counters are unchanged.
C16_EmptySkip ==
    [][ ( /\ fw_pc = "sleep"
          /\ buffer = <<>>
          /\ pending' = pending
          /\ n_writes' = n_writes )
        => /\ fw_pc' = "sleep"
           /\ tick_ops' = <<>>
           /\ connected' = connected
           /\ consecutive_failures' = consecutive_failures
           /\ buffer' = buffer
           /\ total_received' = total_received
           /\ total_forwarded' = total_forwarded
           /\ total_dropped' = total_dropped
           /\ hr' = hr ]_vars

\* a tick ran on the empty buffer while a record was still waiting to be added
C16_Witness ==
    /\ tick_end = "empty"
    /\ buffer = <<>>
    /\ pending # <<>>
    /\ fw_pc = "sleep"
    /\ tick_ops = <<>>
    /\ ~connected
    /\ consecutive_failures = 0
    /\ total_forwarded = 0

\* C17: a tick in the Disconnected state whose connect attempt fails adds 1 to
\* consecutive_failures, stays Disconnected, issues no downstream write and
\* leaves the buffer and total_received, total_forwarded and total_dropped
\* unchanged.
C17_ConnectFailure ==
    [][ (fw_pc = "connect" /\ fw_pc' # "connect" /\ ~connected')
        => /\ ~connected
           /\ consecutive_failures' = consecutive_failures + 1
           /\ fw_pc' = "sleep"
           /\ tick_ops' = << "connect" >>
           /\ buffer' = buffer
           /\ buffer # <<>>
           /\ total_received' = total_received
           /\ total_forwarded' = total_forwarded
           /\ total_dropped' = total_dropped ]_vars

\* two connect attempts failed in a row; the record is still in the buffer
C17_Witness ==
    /\ tick_end = "connect_failed"
    /\ fw_pc = "sleep"
    /\ tick_ops = << "connect" >>
    /\ ~connected
    /\ consecutive_failures = 2
    /\ Len(buffer) = 1
    /\ total_forwarded = 0

\* C18: when the forwarder task is cancelled at one of its wait points, the
\* task terminates, the connection to the Opta is closed if it was open, no
\* further connect or write is issued, and the buffered records are neither
\* forwarded nor removed.
C18_Cancellation ==
    [][ /\ (fw_pc # "done" /\ fw_pc' = "done")
           => /\ ~client_open'
              /\ tick_ops' = tick_ops
              /\ buffer' = buffer
              /\ total_forwarded' = total_forwarded
              /\ total_received' = total_received
              /\ total_dropped' = total_dropped
        /\ fw_pc = "done"
           => /\ fw_pc' = "done"
              /\ tick_ops' = tick_ops
              /\ total_forwarded' = total_forwarded
              /\ client_open' = client_open
              /\ (buffer' = buffer \/ added' # added) ]_vars

\* the forwarder was cancelled in its sleep after three error replies: the
\* task is over, the records are still buffered, the connection is still open
C18_Witness ==
    /\ fw_pc = "done"
    /\ tick_end = "cancelled"
    /\ conn_streak = 3
    /\ ~connected
    /\ client_open
    /\ buffer # <<>>
    /\ total_forwarded = 0

\* C19 as stated: a validated cycle issues one write for each entry of
\* IEC61850_MAPPING (as many writes as the table has entries), each addressed
\* to that entry's path.
C19_Original ==
    [][ (n_cycles' = n_cycles + 1 /\ iec_connected /\ ~OutOfBounds(gw_hr))
        => /\ Len(cycle_writes') = Cardinality(DOMAIN IEC61850_MAPPING)
           /\ \A k \in DOMAIN IEC61850_MAPPING :
                 \E i \in 1..Len(cycle_writes') :
                    cycle_writes'[i].path = IEC61850_MAPPING[k] ]_vars

\* C19 amended: a validated cycle issues exactly three writes, for the
\* entries P_ac, V_dc and I_dc of IEC61850_MAPPING in this order, each
\* addressed to that entry's path; the entries G and Timestamp get no write
\* of their own.
C19_Amended ==
    [][ (n_cycles' = n_cycles + 1 /\ iec_connected /\ ~OutOfBounds(gw_hr))
        => /\ Len(cycle_writes') = 3
           /\ cycle_writes'[1].path = IEC61850_MAPPING["P_ac"]
           /\ cycle_writes'[2].path = IEC61850_MAPPING["V_dc"]
           /\ cycle_writes'[3].path = IEC61850_MAPPING["I_dc"]
           /\ \A i \in 1..Len(cycle_writes') :
                 cycle_writes'[i].path # IEC61850_MAPPING["Timestamp"] ]_vars

\* a cycle on a block with G at its upper bound 1500 was validated and wrote
\* to three paths
C19_Witness ==
    /\ n_cycles >= 1
    /\ iec_connected
    /\ gw_hr[4] = 1500
    /\ Len(cycle_writes) = 3
    /\ cycle_writes[1].path = IEC61850_MAPPING["P_ac"]
    /\ cycle_writes[3].path = IEC61850_MAPPING["I_dc"]

\* C20: in a validated cycle the outcome is the AND of the three writes: if a
\* write fails, total_errors grows by exactly 1 and total_updates and
\* last_update are unchanged; all three writes are attempted whatever the
\* earlier ones returned, and nothing is written to undo a successful one.
C20_PartialFailure ==
    [][ (n_cycles' = n_cycles + 1 /\ iec_connected /\ ~OutOfBounds(gw_hr))
        => LET all_ok == \A i \in 1..Len(cycle_writes') : cycle_writes'[i].ok
           IN  /\ Len(cycle_writes') = 3
               /\ all_ok <=> total_updates' = total_updates + 1
               /\ ~all_ok => /\ total_errors' = total_errors + 1
                             /\ total_updates' = total_updates
                             /\ last_update' = last_update
               /\ all_ok => total_errors' = total_errors ]_vars

\* the first write of a cycle failed, the other two were still made and succeeded
C20_Witness ==
    /\ n_cycles = 1
    /\ Len(cycle_writes) = 3
    /\ ~cycle_writes[1].ok
    /\ cycle_writes[2].ok
    /\ cycle_writes[3].ok
    /\ total_errors = 1
    /\ total_updates = 0
    /\ last_update = None

\* C21: a translation cycle started while the downstream client reports
\* connected = False reads no register, issues no downstream write and leaves
\* total_updates, total_errors, last_update and the registers unchanged.
C21_NotConnectedSkip ==
    [][ (n_cycles' = n_cycles + 1 /\ ~iec_connected)
        => /\ ~cycle_read'
           /\ cycle_writes' = <<>>
           /\ total_updates' = total_updates
           /\ total_errors' = total_errors
           /\ last_update' = last_update
           /\ gw_hr' = gw_hr
           /\ gw_total_received' = gw_total_received ]_vars

\* after a cycle that updated the relay the client was disconnected, and the
\* next cycle was skipped without a read and without an error
C21_Witness ==
    /\ n_cycles = 2
    /\ ~iec_connected
    /\ ~cycle_read
    /\ cycle_writes = <<>>
    /\ total_updates = 1
    /\ total_errors = 0
    /\ last_update # None

\* C22: once the shutdown signal is raised (shutdown_event set), the gateway
\* eventually executes shutdown(): the translator loop stops, the IEC client
\* is disconnected, the final counters are reported and start() returns, with
\* no periodic task left running.
C22_GracefulShutdown ==
    shutdown_event ~> ( /\ final_stats
                        /\ ~running
                        /\ ~iec_connected
                        /\ gw_pc \in {"returned", "exited"}
                        /\ tr_pc \notin {"created", "loop"}
                        /\ stats_pc \notin {"created", "sleep"} )

\* the signal was handled (the shutdown handler and the statistics task have
\* returned), yet start() is still in its gather and the translator still cycles
C22_Witness ==
    /\ shutdown_event
    /\ handler_pc = "done"
    /\ stats_pc = "done"
    /\ server_pc = "serving"
    /\ gw_pc = "gather"
    /\ tr_pc = "loop"
    /\ running
    /\ iec_connected
    /\ ~final_stats
    /\ n_cycles >= 2

\* C23: an unexpected exception raised inside one cycle of the forwarder or of
\* the translator never terminates the task: the forwarder's state is left as
\* it was and the task sleeps and performs its next tick; the translator
\* counts the cycle in total_errors exactly once, writes nothing, keeps
\* running and performs its next cycle (unless shutdown() stops it).
C23_TasksSurvive ==
    /\ [][ /\ (fw_pc = "connect" /\ fw_pc' = "error_sleep")
              => /\ connected' = connected
                 /\ consecutive_failures' = consecutive_failures
                 /\ buffer' = buffer
                 /\ total_forwarded' = total_forwarded
           /\ fw_pc = "error_sleep" => fw_pc' \in {"error_sleep", "sleep"}
           /\ (n_cycles' = n_cycles + 1 /\ tr_raised')
              => /\ total_errors' = total_errors + 1
                 /\ total_updates' = total_updates
                 /\ last_update' = last_update
                 /\ cycle_writes' = <<>>
                 /\ running'
                 /\ tr_pc' = "loop"
           /\ (tr_raised /\ tr_pc = "loop" /\ tr_pc' # "loop") => ~running ]_vars
    /\ (tick_end = "unexpected") ~> (fw_pc = "sleep")
    /\ (tick_end = "unexpected") ~> (tick_end # "unexpected")
    /\ \A k \in 1..(MaxCycles - 1) :
          (tr_raised /\ n_cycles = k) ~> (n_cycles > k \/ ~running)

\* the translator's first cycle raised and was counted as one error; its
\* second cycle ran and updated the relay
C23_Witness ==
    /\ n_cycles = 2
    /\ total_errors = 1
    /\ total_updates = 1
    /\ ~tr_raised
    /\ tr_pc = "loop"
    /\ running
    /\ Len(cycle_writes) = 3

\* C24: a failed connect to the downstream peer (the Opta for the forwarder,
\* the SIPROTEC relay for the substation gateway) does not terminate the
\* gateway, and while the link stays unavailable a later connect attempt is
\* eventually made.
C24_ConnectRetried ==
    /\ [][ /\ (fw_pc = "connect" /\ fw_pc' # "connect" /\ ~connected')
              => fw_pc' \in {"sleep", "error_sleep"}
           /\ (gw_pc = "connect" /\ gw_pc' # "connect" /\ ~iec_connected')
              => gw_pc' \notin {"connect_failed", "exited"} ]_vars
    /\ (tick_end = "connect_failed") ~> (fw_pc = "connect")
    /\ (gw_pc # "connect" /\ ~iec_connected /\ ~final_stats) ~> (gw_pc = "connect")

\* the connect of start() failed: the process has exited without a translator,
\* a server or a second connect attempt
C24_Witness ==
    /\ gw_pc = "exited"
    /\ ~iec_connected
    /\ ~final_stats
    /\ tr_pc = "none"
    /\ server_pc = "none"
    /\ n_cycles = 0

\* task t is executing a method against the buffer's contents or counters:
\* from the start of the body to the exit of the lock
InBuffer(t) == OpAt(t, "body") \/ OpAt(t, "release")

\* C25: at no time two of add, get_latest, get_all_pending, get_count and
\* mark_forwarded execute against the TelemetryBuffer together: at most one
\* task is inside a method, the lock is held exactly by the task inside a
\* locking method, and no add is lost from total_received.
C25_MutualExclusion ==
    /\ \A t, u \in Tasks : InBuffer(t) /\ InBuffer(u) => t = u
    /\ \A t \in Tasks :
          lock = t <=> (InBuffer(t) /\ UsesLock(op[t][1].name))
    /\ lock \in Tasks \cup {"free"}
    /\ total_received = Len(added)

\* the forwarder is inside the lock-less mark_forwarded while an enqueue task
\* created during its downstream write has not run yet
C25_Witness ==
    /\ OpAt("forwarder", "body")
    /\ op["forwarder"][1].name = "mark_forwarded"
    /\ pending # <<>>
    /\ total_received >= 1
    /\ cur = "forwarder"

\* C26: across every step of the buffer operations and of the forwarder,
\* total_received, total_forwarded and total_dropped never decrease (so they
\* are never reset).
C26_CountersMonotonic ==
    [][/\ total_received' >= total_received
       /\ total_forwarded' >= total_forwarded
       /\ total_dropped' >= total_dropped]_vars

\* three adds on a buffer of two, one record dropped, one forwarded by the
\* forwarder and two more marked by the diagnostic caller
C26_Witness ==
    /\ total_received = 3
    /\ total_dropped = 1
    /\ total_forwarded = 3
    /\ Len(buffer) = BUFFER_MAX_SIZE

\* the diagnostic caller is in get_all_pending(), at the step pc of the call
Draining(pc) == OpAt("api", pc) /\ op["api"][1].name = "get_all_pending"

\* the deque holds the most recent adds, oldest first
BufferIsTailOfAdded ==
    /\ Len(buffer) <= Len(added)
    /\ buffer = SubSeq(added, Len(added) - Len(buffer) + 1, Len(added))

\* C27: get_all_pending() returns every buffered record, oldest first, and
\* leaves the buffer empty in the same step, with total_received,
\* total_forwarded and total_dropped unchanged; a get_latest() or get_count()
\* on the state it leaves gives None and 0; and until the result is back with
\* the caller no add has run, so nothing is removed that was not returned.
C27_DrainAll ==
    /\ [][Draining("body") /\ op' # op =>
            /\ BufferIsTailOfAdded
            /\ ret'["api"] = Some(buffer)
            /\ buffer' = <<>>
            /\ get_latest(buffer') = None
            /\ get_count(buffer') = 0
            /\ total_received' = total_received
            /\ total_forwarded' = total_forwarded
            /\ total_dropped' = total_dropped
            /\ added' = added]_vars
    /\ [](Draining("release") \/ Draining("return") =>
            /\ buffer = <<>>
            /\ ret["api"] # None
            /\ Len(ret["api"][1]) <= Len(added)
            /\ ret["api"][1] = SubSeq(added, Len(added) - Len(ret["api"][1]) + 1,
                                      Len(added)))

\* get_all_pending() has returned two different records, the older first,
\* while one more enqueue task waits for the loop
C27_Witness ==
    /\ Draining("return")
    /\ Len(ret["api"][1]) = 2
    /\ ret["api"][1][1] # ret["api"][1][2]
    /\ ret["api"][1] = added
    /\ buffer = <<>>
    /\ pending # <<>>
    /\ total_received = 2

\* task t executes the body of the method `name` in this step
BodyStep(t, name) == OpAt(t, "body") /\ op[t][1].name = name /\ op'[t] # op[t]

\* C28: get_latest() and get_count() change neither the contents of the buffer
\* nor a counter, and return the newest record (or None) and the length;
\* mark_forwarded(n) adds exactly n to total_forwarded and changes neither the
\* contents nor total_received nor total_dropped.
C28_ObserverFrames ==
    [][\A t \in Tasks :
          /\ BodyStep(t, "get_latest") =>
                /\ UNCHANGED << buffer, total_received, total_forwarded,
                                total_dropped >>
                /\ ret'[t] = Some(get_latest(buffer))
          /\ BodyStep(t, "get_count") =>
                /\ UNCHANGED << buffer, total_received, total_forwarded,
                                total_dropped >>
                /\ ret'[t] = Some(Len(buffer))
          /\ BodyStep(t, "mark_forwarded") =>
                /\ UNCHANGED << buffer, total_received, total_dropped >>
                /\ total_forwarded' = total_forwarded + op[t][1].arg]_vars

\* mark_forwarded(2) has run on a full buffer after the forwarder's
\* get_count(), get_latest() and mark_forwarded(1)
C28_Witness ==
    /\ OpAt("api", "return")
    /\ op["api"][1].name = "mark_forwarded"
    /\ op["api"][1].arg = 2
    /\ total_forwarded = 3
    /\ Len(buffer) = BUFFER_MAX_SIZE
    /\ latest # None
    /\ buffer_count > 0

\* the forwarder is suspended in client.connect() or client.write_registers()
ForwarderWaiting == fw_pc \in {"connect", "write"}

\* C29: while the forwarder waits in a connect attempt or a downstream write
\* it is in no buffer call and does not hold the buffer's lock: the lock is
\* free or held by the task that is running, and a task that reaches the lock
\* (an enqueue task in add, the statistics task in get_count) finds it free
\* and never has to wait for it.
C29_ForwarderBlockingLocal ==
    ForwarderWaiting =>
        /\ lock # "forwarder"
        /\ op["forwarder"] = None
        /\ cur # "forwarder"
        /\ \A t \in Tasks : ~OpAt(t, "wait") /\ (OpAt(t, "acquire") => lock = "free")
        /\ cur = "none" => lock = "free"
        /\ lock \in {"free", cur}

\* the forwarder counted one record and is still in its connect attempt; since
\* then two more writes were stored and added, and the statistics task has
\* just read the length of the buffer
C29_Witness ==
    /\ fw_pc = "connect"
    /\ buffer_count = 1
    /\ total_received = 3
    /\ n_writes = 3
    /\ OpAt("stats", "return")
    /\ ret["stats"] = Some(Len(buffer))
    /\ lock = "free"

\* the number of enqueue tasks created so far: those that have added their
\* record and those still in pending, the running one counted once
TasksCreated ==
    Len(added) + Len(pending)
    - (IF OpAt("add", "release") \/ OpAt("add", "return") THEN 1 ELSE 0)

\* C30: under fair scheduling every buffer call that a task has started, of
\* add, get_latest, get_all_pending, get_count or mark_forwarded, reaches its
\* body and returns, and the call is then closed; every enqueue task that was
\* created gets to run its add; and no state is stuck: the running task always
\* has a step to take, and the lock is never held by a task that is not
\* running.
C30_NoIndefiniteBlocking ==
    /\ \A t \in Tasks :
          /\ (OpAt(t, "acquire") \/ OpAt(t, "wait")) ~> OpAt(t, "body")
          /\ OpAt(t, "body") ~> OpAt(t, "return")
          /\ OpAt(t, "return") ~> ~OpAt(t, "return")
    /\ \A k \in 1..MaxFairWrites : (TasksCreated >= k) ~> (Len(added) >= k)
    /\ [](/\ lock \in {"free", cur}
          /\ cur # "none" => op[cur] # None)

\* an enqueue task, started while the forwarder was suspended in its write,
\* has completed its add, and the statistics task and the forwarder have
\* completed calls before
C30_Witness ==
    /\ OpAt("add", "return")
    /\ fw_pc = "write"
    /\ total_received = 2
    /\ buffer_count = 1
    /\ lock = "free"

\* a step of the forwarder in Spec: neither a setValues call nor an enqueue task
ForwarderStep == n_writes' = n_writes /\ added' = added

\* the number of write_registers calls of the current tick
TickWrites == Cardinality({i \in 1..Len(tick_ops) : tick_ops[i] = "write"})

\* C31: a forwarder tick issues at most one downstream write; the record it
\* sends is the one that was added last at the moment the forwarder fetched
\* it, after the connect attempt if there was one; and no forwarder step
\* changes the buffer, total_received or total_dropped.
C31_LatestValueForwarding ==
    /\ [](TickWrites <= 1)
    /\ [](fw_pc = "write" => latest # None /\ TickWrites = 0
                             /\ \E i \in 1..Len(added) : latest = Some(added[i]))
    /\ [][/\ fw_pc # "write" /\ fw_pc' = "write" =>
                /\ added # <<>>
                /\ latest' = Some(added[Len(added)])
                /\ latest' = Some(buffer[Len(buffer)])
          /\ fw_pc = "write" /\ fw_pc' # "write" =>
                /\ fw_pc' = "sleep"
                /\ tick_ops' = Append(tick_ops, "write")
                /\ latest' = latest
          /\ ForwarderStep =>
                /\ buffer' = buffer
                /\ total_received' = total_received
                /\ total_dropped' = total_dropped]_vars

\* the forwarder counted one record, connected, and fetched the record that
\* was added during the connect attempt; a third one was added since
C31_Witness ==
    /\ fw_pc = "write"
    /\ tick_ops = << "connect" >>
    /\ buffer_count = 1
    /\ Len(added) = 3
    /\ latest = Some(added[2])
    /\ added[1] # added[2]
    /\ added[2] # added[3]

\* x clamped to [0, 65535]
Clamp16(x) == IF x < 0 THEN 0 ELSE IF x > U16_MAX THEN U16_MAX ELSE x

\* C32: every register the encoder produces is an integer in [0, 65535]: the
\* voltage register is round(V_dc * 10) clamped to that range (0 below it,
\* 65535 above it), and the two timestamp words are those of the unix time
\* clamped to [0, 0xFFFFFFFF] (0, 0 for a negative one, 65535, 65535 for one
\* above), so nothing wraps around modulo 2^16.
C32_EncodeClamping ==
    codec_pc \in {"sent", "decoded"} =>
        LET regs == codec_regs[1]
            v    == codec_in[1].row.V_dc
            t    == codec_in[1].unix_s
        IN  /\ Len(regs) = 8
            /\ \A i \in 1..8 : regs[i] \in 0..U16_MAX
            /\ regs[3] = Clamp16(round(<< v[1] * 10, v[2] >>))
            /\ (t.neg /\ ~IsZero(t.bits)) => regs[7] = 0 /\ regs[8] = 0
            /\ (~t.neg /\ Exceeds(t.bits, 2 * WORD))
                  => regs[7] = U16_MAX /\ regs[8] = U16_MAX
            /\ IsU32(t) =>
                  /\ ToBits(regs[7], WORD) = SubSeq(Norm(t.bits, 2 * WORD), WORD + 1, 2 * WORD)
                  /\ ToBits(regs[8], WORD) = SubSeq(Norm(t.bits, 2 * WORD), 1, WORD)

\* 7000 V encodes to 70000, above the range: the register is 65535
C32_Witness ==
    /\ codec_pc = "sent"
    /\ codec_in[1].row.V_dc = Rat(7000000, 1000)
    /\ round(<< codec_in[1].row.V_dc[1] * 10, codec_in[1].row.V_dc[2] >>) = 70000
    /\ codec_regs[1][3] = U16_MAX

\* the closed-range test on the raw registers r0..r3 of the block h
RawInRange(h) == h[1] <= 10000 /\ h[2] <= 1000 /\ h[3] <= 5000 /\ h[4] <= 1500

\* C33: a translation cycle with the client connected passes validation (and
\* goes on to the downstream writes) if and only if r0 <= 10000, r1 <= 1000,
\* r2 <= 5000 and r3 <= 1500; the bounds themselves pass, and since the
\* registers are unsigned 16-bit values no lower bound can fail.
C33_ClosedRangeValidation ==
    /\ [](\A i \in 1..GW_WATCHED_COUNT : gw_hr[i] \in 0..U16_MAX)
    /\ [](LET d == Decode5(BlockGetValues(gw_hr, 0, GW_WATCHED_COUNT))
          IN  /\ validate_data(d.P_ac, d.V_dc, d.I_dc, d.G) <=> RawInRange(gw_hr)
              /\ ~RatLess(d.P_ac, Rat(0, 1)) /\ ~RatLess(d.V_dc, Rat(0, 1))
              /\ ~RatLess(d.I_dc, Rat(0, 1)) /\ ~RatLess(d.G, Rat(0, 1)))
    /\ [][(n_cycles' = n_cycles + 1 /\ iec_connected) =>
             /\ RawInRange(gw_hr) <=> cycle_writes' # <<>>
             /\ ~RawInRange(gw_hr) <=> (total_errors' = total_errors + 1
                                        /\ cycle_writes' = <<>>)]_vars

\* a cycle on a block with V_dc at its bound, 100.0 V in register 1, passed
\* validation and wrote the three values
C33_Witness ==
    /\ n_cycles = 1
    /\ iec_connected
    /\ gw_hr[2] = V_DC_MAX * V_SCALE
    /\ Len(cycle_writes) = 3
    /\ \A i \in 1..3 : cycle_writes[i].ok
    /\ total_updates = 1
    /\ total_errors = 0

\* C34: on the smart-meter block a setValues call adds at most 1 to
\* total_received and leaves total_served unchanged, so total_served never
\* exceeds the number of getValues calls made by readers.
C34_ServedCountsReads ==
    /\ [][sm_n_writes' = sm_n_writes + 1 =>
             /\ sm_total_served' = sm_total_served
             /\ sm_total_received' \in {sm_total_received, sm_total_received + 1}]_vars
    /\ [](sm_total_served <= sm_n_reads)

\* one watched write and no read at all: one block counted as served
C34_Witness ==
    /\ sm_n_writes = 1
    /\ sm_n_reads = 0
    /\ sm_total_received = 1
    /\ sm_total_served = 1

\* C35: whenever the forwarder's flag says Disconnected the client's
\* connection has been closed, and a connect attempt is never issued on a
\* client whose connection is still open.
C35_FlagAgreesWithSocket ==
    /\ [](~connected => ~client_open)
    /\ [][(fw_pc = "connect" /\ tick_ops' = Append(tick_ops, "connect"))
             => ~client_open]_vars

\* the third error reply in a row: the threshold has set the flag to
\* Disconnected and reset the counter, the connection is still open
C35_Witness ==
    /\ tick_end = "error"
    /\ fw_pc = "sleep"
    /\ ~connected
    /\ consecutive_failures = 0
    /\ send_streak = FAILURE_THRESHOLD
    /\ client_open

\* C36: stop() is effective whenever it is called after the task of run() was
\* created, also before the task's first step: the run loop then terminates,
\* and no cycle that starts after stop() returned sends a write downstream.
C36_StopEffective ==
    /\ stop_called ~> (tr_pc = "stopped")
    /\ [][(stop_called /\ n_cycles' # n_cycles) => cycle_writes' = <<>>]_vars

\* stop() came before the first step of run(): the loop runs and has written
C36_Witness ==
    /\ stop_called
    /\ tr_pc = "loop"
    /\ running
    /\ n_cycles = 2
    /\ Len(cycle_writes) = 3
    /\ total_updates = 2

\* C37: watched writes that come before their add tasks have run are enqueued
\* in the order of the writes: each watched write puts one record behind the
\* ones that wait, holding registers 0..7 as they are right after that write;
\* a later write changes no waiting record; the tasks run oldest first and each
\* puts its own record, unchanged, at the end of the buffer.
Enqueued == added \o pending
C37_EnqueueOrderSnapshots ==
    /\ [](buffer = SubSeq(added, Len(added) - Len(buffer) + 1, Len(added)))
    /\ [][ /\ (n_watched' # n_watched) =>
                /\ Len(pending') = Len(pending) + 1
                /\ pending'[Len(pending')].registers
                        = BlockGetValues(hr', 0, WATCHED_COUNT)
           /\ Enqueued' = (IF n_watched' # n_watched
                           THEN Append(Enqueued, pending'[Len(pending')])
                           ELSE Enqueued)
           /\ (added' # added) =>
                /\ pending # <<>>
                /\ added' = Append(added, Head(pending))
                /\ pending' = Tail(pending)
                /\ buffer'[Len(buffer')] = Head(pending)
                /\ hr' = hr ]_vars

\* two watched writes wait, the first with the registers before the second
C37_Witness ==
    /\ Len(pending) = 2
    /\ Len(added) = 1
    /\ pending[1].registers # pending[2].registers
    /\ pending[2].registers = BlockGetValues(hr, 0, WATCHED_COUNT)
    /\ added[1].registers # pending[1].registers
    /\ buffer = added

\* C38: total_forwarded counts the successful sends: a step raises it, by
\* exactly one, exactly when it is the forwarder's write_registers with a reply
\* that is no error; every other end of a tick (empty buffer, failed connect,
\* no latest record, error reply, exception) and every other step leaves it.
SuccessfulSend ==
    /\ fw_pc = "write"
    /\ tick_ops' = Append(tick_ops, "write")
    /\ tick_end' = "ok"
C38_ForwardedCountsSuccesses ==
    /\ [](total_forwarded >= 0)
    /\ [](tick_end = "ok" => total_forwarded >= 1 /\ send_streak = 0)
    /\ [][ /\ total_forwarded' = (IF SuccessfulSend THEN total_forwarded + 1
                                  ELSE total_forwarded)
           /\ (tick_end' \in {"empty", "connect_failed", "no_latest", "error",
                              "exception"})
                => total_forwarded' = total_forwarded ]_vars

\* a tick that got an error reply after one that succeeded: the count stays
C38_Witness ==
    /\ total_forwarded = 1
    /\ tick_end = "error"
    /\ tick_ops = << "write" >>
    /\ send_streak = 1
    /\ fw_pc = "sleep"

\* C39: register 4, the partial timestamp, does not influence a translation
\* cycle: the cycle issues the writes (paths and values, in order) and makes
\* the changes to total_updates and total_errors that the same cycle would
\* make from a state that differs only in register 4, given the same replies.
Register4Values == {0, 1, 999, U16_MAX}
WithRegister4(regs, v) == [regs EXCEPT ![5] = v]
ValidFrom(regs) ==
    LET d == Decode5(regs) IN validate_data(d.P_ac, d.V_dc, d.I_dc, d.G)
WritesFrom(regs) ==
    IF iec_connected /\ ValidFrom(regs) THEN CycleWrites(Decode5(regs)) ELSE <<>>
C39_TimestampNoInfluence ==
    [][ (n_cycles' # n_cycles) =>
          \A v \in Register4Values :
            LET alt    == WithRegister4(BlockGetValues(gw_hr, 0, GW_WATCHED_COUNT), v)
                all_ok == \A i \in 1..Len(cycle_writes') : cycle_writes'[i].ok
            IN  /\ [i \in 1..Len(cycle_writes') |->
                        [path  |-> cycle_writes'[i].path,
                         value |-> cycle_writes'[i].value]] = WritesFrom(alt)
                /\ total_updates' - total_updates =
                        (IF iec_connected /\ ValidFrom(alt) /\ all_ok THEN 1 ELSE 0)
                /\ total_errors' - total_errors =
                        (IF iec_connected /\ (~ValidFrom(alt) \/ ~all_ok)
                         THEN 1 ELSE 0) ]_vars

\* a cycle from registers whose partial timestamp is 999 has sent its writes
C39_Witness ==
    /\ n_cycles = 1
    /\ gw_hr[5] = 999
    /\ Len(cycle_writes) = 3
    /\ \A i \in 1..3 : cycle_writes[i].ok
    /\ total_updates = 1
    /\ total_errors = 0

\* C40: under every interleaving of add, get_latest, get_all_pending,
\* get_count and mark_forwarded the buffer holds between 0 and capacity
\* records, total_dropped <= total_received, and len(buffer) <=
\* total_received - total_dropped; the two sides are equal at the start and
\* only the body of get_all_pending changes their difference, so they are
\* equal as long as get_all_pending has not been called.
Deficit == total_received - total_dropped - Len(buffer)
DrainBody ==
    \E t \in Tasks :
        /\ OpAt(t, "body")
        /\ op[t][1].name = "get_all_pending"
        /\ op'[t] # op[t]
C40_BufferStructure ==
    /\ [](Len(buffer) \in 0..BUFFER_MAX_SIZE)
    /\ [](total_dropped \in 0..total_received)
    /\ [](Deficit >= 0)
    /\ [](total_received = Len(added))
    /\ [][ IF DrainBody
           THEN Deficit' = Deficit + Len(buffer) /\ buffer' = <<>>
           ELSE Deficit' = Deficit ]_vars

\* three adds into a buffer of two, one dropped, then a drain: an empty
\* buffer with two records counted as neither dropped nor held
C40_Witness ==
    /\ total_received = 3
    /\ total_dropped = 1
    /\ buffer = <<>>
    /\ Deficit = 2
    /\ ret["api"] # None

=============================================================================
